---- MODULE Spec2Model ----
(***************************************************************************)
(* Daily free-wash winner registry and wash ledger of the car-wash         *)
(* backend.                                                                *)
(*                                                                         *)
(* The registry is the table daily_free_winners together with the HTTP     *)
(* handlers of src/src/routes/freeWashDraw.js (GET /, POST /draw,          *)
(* POST /approve, POST /reschedule, DELETE /) and the plpgsql functions of *)
(* src/sql/2025-11-08_daily_free_winners.sql.  Every handler is a chain of *)
(* awaited queries; each query is one atomic step of the store, and the    *)
(* steps of requests in flight interleave freely.                          *)
(*                                                                         *)
(* The wash ledger is the tables washes and customers together with the    *)
(* handlers POST / and PUT /:id of the washes router (the second half of   *)
(* src/src/routes/featuredVehicles.js), which evaluate the rewards         *)
(* (featured vehicle, 13th wash of the month, random free wash) and store  *)
(* the wash with its commission, its profit and its receipt number.        *)
(***************************************************************************)
EXTENDS Integers, Sequences, FiniteSets, TLC

VARIABLES
    winners,      \* rows of daily_free_winners
    candidates,   \* rows of daily_free_candidates
    washes,       \* rows of washes (read by the candidate query)
    nextId,       \* rows inserted so far; the next row gets id nextId + 1
    calls,        \* requests started so far
    pc,           \* per request in flight: position inside its handler
    req,          \* per request in flight: what the caller sent
    loc,          \* per request in flight: the handler's local variables
    last,         \* the request answered last, and its response
    customers,    \* rows of customers
    settings,     \* the row of app_settings
    promotions,   \* rows of promotions
    tz,           \* hours the server's local time is ahead of UTC
    faults,       \* queries that have failed so far
    clock,        \* Date.now(), in milliseconds
    users         \* rows of users

\* what the wash ledger adds to the registry's state
ledgerVars == <<customers, settings, promotions, tz, faults, clock, users>>

vars == <<winners, candidates, washes, nextId, calls, pc, req, loc, last, ledgerVars>>

-----------------------------------------------------------------------------
(* Bounds *)

\* requests the server handles at the same time, and requests in a run
MaxInFlight == 2
MaxCalls == 4

Slots == 1..MaxInFlight

-----------------------------------------------------------------------------
(* Values *)

NULL == "NULL"

\* calendar dates are <<year, month, day>>, as isoDay returns them
D1 == <<2025, 11, 10>>

\* new Date().toISOString().slice(0, 10)
Today == <<2025, 11, 11>>

Dates == {D1, Today}

\* the users before a run: two active administrators and a manager
UserRows ==
    {[id |-> 1, role |-> "ADMIN", is_active |-> TRUE],
     [id |-> 2, role |-> "ADMIN", is_active |-> TRUE],
     [id |-> 3, role |-> "MANAGER", is_active |-> TRUE]}

\* Date.now() when a run starts: milliseconds, with the leading digits of the
\* epoch left out (the receipt number reads the last five)
ClockStart == 1762899999

\* an absent date: (s || "") is the empty string
NoDate == <<>>

\* what a caller sends as a date
DateInputs == {D1, NoDate}

\* the test /^\d{4}-\d{2}-\d{2}$/ of isoDay on the first 10 characters
IsIsoDay(s) == Len(s) = 3

isoDay(s) == IF IsIsoDay(s) THEN s ELSE Today

monthYYYYMM(d) == SubSeq(d, 1, 2)

DefaultMinWashes == 12
DefaultLimit == 50
DrawLimit == 200
MaxLimit == 200

\* a number sent by the caller is <<n>>, an absent one <<>>
toInt(v, def) == IF Len(v) = 1 THEN v[1] ELSE def

Max(a, b) == IF a >= b THEN a ELSE b
Min(a, b) == IF a <= b THEN a ELSE b

\* v || null of JavaScript
OrNull(v) == IF v = "" THEN NULL ELSE v

toUpperCase(v) ==
    CASE v = " kaa 111a" -> " KAA 111A"
      [] v = "kbb 222b" -> "KBB 222B"
      [] OTHER -> v

trim(v) ==
    CASE v = " KAA 111A" -> "KAA 111A"
      [] v = " kaa 111a" -> "kaa 111a"
      [] OTHER -> v

\* (req.body?.vehicle_reg || "").toUpperCase().trim() || null
normReg(v) == OrNull(trim(toUpperCase(IF v = NULL THEN "" ELSE v)))

\* the identity fields of the body of POST /approve and POST /reschedule
IdentityX ==
    [customer_id |-> "c1", vehicle_reg |-> " kaa 111a",
     customer_phone |-> "0711", customer_name |-> NULL]
IdentityY ==
    [customer_id |-> NULL, vehicle_reg |-> "kbb 222b",
     customer_phone |-> NULL, customer_name |-> "Yusuf"]

-----------------------------------------------------------------------------
(* Tables read by the candidate query *)

\* services: id -> name, a name being its sequence of characters
ServiceRows ==
    [s1 |-> <<"F", "u", "l", "l">>,
     s2 |-> <<"R", "i", "n", "s", "e">>]

\* customers: id -> phone, name, vehicle_reg
CustomerRows ==
    [c1 |-> [phone |-> "0711", name |-> "Asha", vehicle_reg |-> "KAA 111A"],
     c2 |-> [phone |-> NULL, name |-> "Bilal", vehicle_reg |-> "KCC 333C"]]

Nov == <<2025, 11>>
Oct == <<2025, 10>>

\* washes of the running and of the previous month
WashRows ==
    {[id |-> 1, customer_id |-> "c1", vehicle_reg |-> NULL, service_id |-> "s1",
      month |-> Nov, washed_at |-> 3],
     [id |-> 2, customer_id |-> "c1", vehicle_reg |-> "KAA 111A", service_id |-> "s1",
      month |-> Nov, washed_at |-> 5],
     [id |-> 3, customer_id |-> "c2", vehicle_reg |-> "KCC 333C", service_id |-> "s2",
      month |-> Nov, washed_at |-> 6],
     [id |-> 4, customer_id |-> "c2", vehicle_reg |-> "KCC 333C", service_id |-> "s1",
      month |-> Oct, washed_at |-> 1]}

lower(c) ==
    CASE c = "F" -> "f"
      [] c = "R" -> "r"
      [] OTHER -> c

\* name ILIKE '%kw%'
ILike(name, kw) ==
    \E i \in 0..(Len(name) - Len(kw)) :
        \A j \in 1..Len(kw) : lower(name[i + j]) = lower(kw[j])

KwFull == <<"f", "u", "l", "l">>
KwComplete == <<"c", "o", "m", "p", "l", "e", "t", "e">>

\* the service filter of a request: by id, by name keyword, or neither
NoFilter == [service_id_full |-> NULL, service_name_full |-> <<>>]
FilterById == [service_id_full |-> "s2", service_name_full |-> <<>>]
FilterByName ==
    [service_id_full |-> NULL, service_name_full |-> <<"r", "i", "n", "s", "e">>]

\* buildServiceFilter, as the predicate its WHERE fragment states on a wash
buildServiceFilter(f, w) ==
    IF f.service_id_full # NULL
    THEN w.service_id = f.service_id_full
    ELSE IF f.service_name_full # <<>>
    THEN ILike(ServiceRows[w.service_id], f.service_name_full)
    ELSE \/ ILike(ServiceRows[w.service_id], KwFull)
         \/ ILike(ServiceRows[w.service_id], KwComplete)

SetMax(S) == CHOOSE x \in S : \A y \in S : y <= x

\* the collation of the text values the tables hold
Collation == <<"0711", "Asha", "Bilal", "KAA 111A", "KCC 333C">>
Rank(x) == CHOOSE i \in 1..Len(Collation) : Collation[i] = x

\* MAX() of a text column over a group: NULLs are skipped
TextMax(S) ==
    IF S \ {NULL} = {} THEN NULL
    ELSE CHOOSE x \in S \ {NULL} : \A y \in S \ {NULL} : Rank(x) >= Rank(y)

\* COALESCE(UPPER(TRIM(w.vehicle_reg)), UPPER(TRIM(c.vehicle_reg)))
baseReg(w) ==
    IF w.vehicle_reg # NULL THEN toUpperCase(trim(w.vehicle_reg))
    ELSE IF w.customer_id # NULL
    THEN toUpperCase(trim(CustomerRows[w.customer_id].vehicle_reg))
    ELSE NULL

\* the CTE base: washes of the month that pass the service filter
base(month, f) ==
    {w \in washes : w.month = month /\ buildServiceFilter(f, w)}

\* the CTE agg: one row per customer_id of base
agg(month, f) ==
    {[customer_id |-> c,
      vehicle_reg |-> TextMax({baseReg(w) : w \in {x \in base(month, f) : x.customer_id = c}}),
      customer_phone |-> IF c = NULL THEN NULL ELSE CustomerRows[c].phone,
      customer_name |-> IF c = NULL THEN NULL ELSE CustomerRows[c].name,
      wash_count |-> Cardinality({x \in base(month, f) : x.customer_id = c}),
      last_wash |-> SetMax({x.washed_at : x \in {y \in base(month, f) : y.customer_id = c}})]
     : c \in {w.customer_id : w \in base(month, f)}}

\* ORDER BY wash_count DESC, last_wash DESC
Ahead(a, b) ==
    \/ a.wash_count > b.wash_count
    \/ a.wash_count = b.wash_count /\ a.last_wash > b.last_wash

\* fetchCandidates: the rows of agg with at least minW washes, the first lim of them
fetchCandidates(date, min_washes, limit, f) ==
    LET drawDate == isoDay(date)
        month == monthYYYYMM(drawDate)
        minW == toInt(min_washes, DefaultMinWashes)
        lim == Max(1, Min(toInt(limit, DefaultLimit), MaxLimit))
        rows == {a \in agg(month, f) : a.wash_count >= minW}
    IN  {a \in rows : Cardinality({b \in rows : Ahead(b, a)}) < lim}

-----------------------------------------------------------------------------
(* The winners table *)

\* a TEXT column: NULL, or the pieces concatenated into it
NullText == [isnull |-> TRUE, text |-> <<>>]
Text(t) == [isnull |-> FALSE, text |-> t]

\* the rows of a draw-date
DayRows(rows, d) == {r \in rows : r.draw_date = d}

ApprovedRows(rows, d) == {r \in DayRows(rows, d) : r.status = "APPROVED"}

\* the table without the partial unique index
uniq_dropped(rows, row) == TRUE

\* uniq_daily_free_winners_approved_per_day: whether the index admits `row`
\* next to the other rows of the table
uniq_approved_per_day(rows, row) ==
    row.status = "APPROVED" => ApprovedRows(rows, row.draw_date) = {}

\* a day-free check that never throws
assertDayFree_skipped(rows, drawDate) == TRUE

\* assertDayFree: true when it returns, false when it throws 409
assertDayFree(rows, drawDate) == DayRows(rows, drawDate) = {}

\* an INSERT that leaves the winner waiting for approval
insertWinner_pending(id, drawDate, winner) ==
    [id |-> id,
     draw_date |-> drawDate,
     customer_id |-> OrNull(winner.customer_id),
     vehicle_reg |-> OrNull(winner.vehicle_reg),
     customer_phone |-> OrNull(winner.customer_phone),
     customer_name |-> OrNull(winner.customer_name),
     status |-> "PENDING",
     note |-> NullText]

\* the row insertWinner writes; status takes the column default
insertWinner(id, drawDate, winner) ==
    [id |-> id,
     draw_date |-> drawDate,
     customer_id |-> OrNull(winner.customer_id),
     vehicle_reg |-> OrNull(winner.vehicle_reg),
     customer_phone |-> OrNull(winner.customer_phone),
     customer_name |-> OrNull(winner.customer_name),
     status |-> "APPROVED",
     note |-> NullText]

\* the row approve_daily_free_candidate writes
approveInsert(id, v_date, v_cand, p_note) ==
    [id |-> id,
     draw_date |-> v_date,
     customer_id |-> v_cand.customer_id,
     vehicle_reg |-> v_cand.vehicle_reg,
     customer_phone |-> v_cand.customer_phone,
     customer_name |-> v_cand.customer_name,
     status |-> "APPROVED",
     note |-> p_note]

\* the SET clause of revoke_daily_free_winner
revokeUpdate(r, p_reason) ==
    [r EXCEPT
        !.status = "REVOKED",
        !.note = Text((IF r.note.isnull THEN <<>> ELSE r.note.text)
                      \o (IF p_reason # NULL THEN <<"[REVOCATION]", p_reason>> ELSE <<>>))]

\* the rows DELETE / removes
deleteDay(rows, day) == DayRows(rows, day)

\* the winner body of POST /approve and POST /reschedule
bodyWinner(b) ==
    [customer_id |-> OrNull(b.customer_id),
     vehicle_reg |-> normReg(b.vehicle_reg),
     customer_phone |-> OrNull(b.customer_phone),
     customer_name |-> OrNull(b.customer_name)]

-----------------------------------------------------------------------------
(* Requests and responses *)

UnknownId == 0

NoIdentity ==
    [customer_id |-> NULL, vehicle_reg |-> NULL,
     customer_phone |-> NULL, customer_name |-> NULL]

NoReq ==
    [op |-> "none", date |-> NoDate, ident |-> NoIdentity, min_washes |-> <<>>,
     filter |-> NoFilter, autoApprove |-> FALSE, id |-> UnknownId,
     reason |-> NULL, note |-> NullText]

NoLoc == [drawDate |-> NoDate, winner |-> {}]

NoResp == [status |-> "none", error |-> "", date |-> NoDate, rows |-> {}, cand |-> {}]

Reply(status, error) == [NoResp EXCEPT !.status = status, !.error = error]
ReplyRow(status, row) == [NoResp EXCEPT !.status = status, !.rows = {row}]

\* the messages the handlers and functions produce
MsgDayTaken == "A winner already exists for that date."
MsgNoEligible == "No eligible customers for that date/month."
MsgNoWinner == "No winner found for that date."
MsgUnique == "duplicate key value violates unique constraint"
MsgApprovedExists == "An approved winner already exists for %"
MsgCandRequired == "candidate_id is required"
MsgCandNotFound == "Candidate (%) not found"
MsgWinnerNotFound == "Winner (%) not found"
MsgRescheduleRequired == "candidate_id and new_date are required"
MsgCandExists == "This candidate (or same vehicle) already exists for the new date (%)"

\* what a caller sees as Conflict and as NotFound
IsConflict(r) ==
    \/ r.status = "409"
    \/ r.status = "EXCEPTION" /\ r.error = MsgApprovedExists
IsNotFound(r) ==
    \/ r.status = "404"
    \/ r.status = "EXCEPTION" /\ r.error \in {MsgCandNotFound, MsgWinnerNotFound}
IsSuccess(r) == r.status \in {"200", "201", "RETURN"}

-----------------------------------------------------------------------------
(* Initial state *)

\* the candidate pool an operator has entered
CandidateRows ==
    {[id |-> 1, draw_date |-> D1, customer_id |-> "c1", vehicle_reg |-> "KAA 111A",
      customer_phone |-> "0711", customer_name |-> "Asha"],
     [id |-> 2, draw_date |-> Today, customer_id |-> "c2", vehicle_reg |-> "KCC 333C",
      customer_phone |-> NULL, customer_name |-> "Bilal"],
     [id |-> 3, draw_date |-> Today, customer_id |-> NULL, vehicle_reg |-> "KBB 222B",
      customer_phone |-> NULL, customer_name |-> "Yusuf"],
     [id |-> 4, draw_date |-> D1, customer_id |-> NULL, vehicle_reg |-> "kbb 222b",
      customer_phone |-> NULL, customer_name |-> "Yusuf"]}

NoLast == [req |-> NoReq, resp |-> NoResp]

\* SELECT * FROM app_settings WHERE id=1 returning no row: {}
NoSettings ==
    [promo_free_enabled |-> FALSE, promo_free_prob |-> 0, promo_free_min_visits |-> 0,
     promo_free_daily_cap |-> 0, featured_free_once_per_month |-> TRUE]

Init ==
    /\ winners = {}
    /\ candidates = CandidateRows
    /\ washes = WashRows
    /\ nextId = 0
    /\ calls = 0
    /\ pc = [p \in Slots |-> "idle"]
    /\ req = [p \in Slots |-> NoReq]
    /\ loc = [p \in Slots |-> NoLoc]
    /\ last = NoLast
    /\ customers = {}
    /\ settings = NoSettings
    /\ promotions = {}
    /\ tz = 0
    /\ faults = 0
    /\ clock = ClockStart
    /\ users = UserRows

-----------------------------------------------------------------------------
(* Steps shared by the handlers *)

\* A handler runs without interruption up to its first awaited query, so a
\* request enters the model at the step that executes this query: it takes
\* the first free slot and either answers at once or waits for its next query.
Accept(p) ==
    /\ pc[p] = "idle"
    /\ \A q \in Slots : q < p => pc[q] # "idle"
    /\ calls < MaxCalls
    /\ calls' = calls + 1
    /\ UNCHANGED <<candidates, washes, ledgerVars>>

\* the request goes on to its next query
Await(p, r, l, at) ==
    /\ pc' = [pc EXCEPT ![p] = at]
    /\ req' = [req EXCEPT ![p] = r]
    /\ loc' = [loc EXCEPT ![p] = l]
    /\ UNCHANGED last

\* the request is answered and its slot is free again
Answer(p, r, response) ==
    /\ last' = [req |-> r, resp |-> response]
    /\ pc' = [pc EXCEPT ![p] = "idle"]
    /\ req' = [req EXCEPT ![p] = NoReq]
    /\ loc' = [loc EXCEPT ![p] = NoLoc]

\* a later query of a request in flight
Resume(p, at) ==
    /\ pc[p] = at
    /\ UNCHANGED <<calls, candidates, washes, ledgerVars>>

\* await assertDayFree(drawDate): the SELECT and the throw of 409
AssertStep(p, r, l, next) ==
    /\ IF assertDayFree(winners, l.drawDate)
       THEN Await(p, r, l, next)
       ELSE Answer(p, r, Reply("409", MsgDayTaken))
    /\ UNCHANGED <<winners, nextId>>

\* await insertWinner(...): the INSERT under the unique index; a rejected
\* INSERT throws an error without status, which the handler answers as 500
InsertStep(p) ==
    \E winner \in loc[p].winner :
        LET row == insertWinner(nextId + 1, loc[p].drawDate, winner)
        IN  IF uniq_approved_per_day(winners, row)
            THEN /\ winners' = winners \cup {row}
                 /\ nextId' = nextId + 1
                 /\ Answer(p, req[p], ReplyRow("201", row))
            ELSE /\ Answer(p, req[p], Reply("500", MsgUnique))
                 /\ UNCHANGED <<winners, nextId>>

-----------------------------------------------------------------------------
(* POST /approve *)

\* the bodies callers send
ApproveBodies ==
    {[date |-> D1, ident |-> IdentityX],
     [date |-> D1, ident |-> IdentityY]}

ApproveAssert(p) ==
    \E b \in ApproveBodies :
        /\ Accept(p)
        /\ AssertStep(p, [NoReq EXCEPT !.op = "approve", !.date = b.date, !.ident = b.ident],
                      [drawDate |-> isoDay(b.date), winner |-> {bodyWinner(b.ident)}],
                      "approve_insert")

ApproveInsert(p) ==
    /\ Resume(p, "approve_insert")
    /\ InsertStep(p)

-----------------------------------------------------------------------------
(* POST /reschedule and its alias POST /move *)

RescheduleBodies ==
    {[to_date |-> NoDate, ident |-> IdentityY],
     [to_date |-> D1, ident |-> NoIdentity]}

RescheduleAssert(p) ==
    \E b \in RescheduleBodies :
        /\ Accept(p)
        /\ AssertStep(p, [NoReq EXCEPT !.op = "reschedule", !.date = b.to_date,
                                       !.ident = b.ident],
                      [drawDate |-> isoDay(b.to_date), winner |-> {bodyWinner(b.ident)}],
                      "reschedule_insert")

RescheduleInsert(p) ==
    /\ Resume(p, "reschedule_insert")
    /\ InsertStep(p)

-----------------------------------------------------------------------------
(* POST /draw *)

DrawBodies ==
    {[date |-> D1, min_washes |-> <<1>>, filter |-> NoFilter, autoApprove |-> TRUE],
     [date |-> D1, min_washes |-> <<>>, filter |-> NoFilter, autoApprove |-> TRUE],
     [date |-> D1, min_washes |-> <<1>>, filter |-> FilterById, autoApprove |-> FALSE],
     [date |-> NoDate, min_washes |-> <<1>>, filter |-> FilterByName, autoApprove |-> FALSE]}

\* SELECT * FROM daily_free_winners WHERE draw_date = $1 LIMIT 1: any one row
\* of the date, the query states no order
existedRows(rows, drawDate) == DayRows(rows, drawDate)

DrawExisted(p) ==
    \E b \in DrawBodies :
        LET r == [NoReq EXCEPT !.op = "draw", !.date = b.date, !.min_washes = b.min_washes,
                               !.filter = b.filter, !.autoApprove = b.autoApprove]
            drawDate == isoDay(b.date)
        IN  /\ Accept(p)
            /\ IF existedRows(winners, drawDate) # {}
               THEN \E row \in existedRows(winners, drawDate) :
                        Answer(p, r, ReplyRow("200", row))
               ELSE Await(p, r, [drawDate |-> drawDate, winner |-> {}], "draw_candidates")
            /\ UNCHANGED <<winners, nextId>>

\* a draw that always persists, the behaviour before suggestions
suggestOnly_never(autoApprove) == FALSE

\* if (!autoApprove) return the suggestion
suggestOnly(autoApprove) == ~autoApprove

DrawCandidates(p) ==
    /\ Resume(p, "draw_candidates")
    /\ LET cs == fetchCandidates(loc[p].drawDate, req[p].min_washes, <<DrawLimit>>,
                                 req[p].filter)
       IN  IF cs = {}
           THEN Answer(p, req[p], Reply("404", MsgNoEligible))
           ELSE \E candidate \in cs :
                    IF suggestOnly(req[p].autoApprove)
                    THEN Answer(p, req[p],
                                [NoResp EXCEPT !.status = "200", !.cand = {candidate}])
                    ELSE Await(p, req[p], [loc[p] EXCEPT !.winner = {candidate}],
                               "draw_assert")
    /\ UNCHANGED <<winners, nextId>>

DrawAssert(p) ==
    /\ Resume(p, "draw_assert")
    /\ AssertStep(p, req[p], loc[p], "draw_insert")

DrawInsert(p) ==
    /\ Resume(p, "draw_insert")
    /\ InsertStep(p)

-----------------------------------------------------------------------------
(* DELETE /?date= *)

Delete(p) ==
    \E date \in DateInputs :
        LET r == [NoReq EXCEPT !.op = "delete", !.date = date]
            del == deleteDay(winners, isoDay(date))
        IN  /\ Accept(p)
            /\ winners' = winners \ del
            /\ IF del = {}
               THEN Answer(p, r, Reply("404", MsgNoWinner))
               ELSE Answer(p, r, Reply("200", ""))
            /\ UNCHANGED nextId

-----------------------------------------------------------------------------
(* GET /: the winner of a day *)

\* the columns of the SELECT: id, draw_date, customer_id, vehicle_reg,
\* customer_phone, customer_name (used_at, created_by and created_at are not
\* kept in the rows here); the status is not selected
winnerColumns(r) ==
    [id |-> r.id, draw_date |-> r.draw_date, customer_id |-> r.customer_id,
     vehicle_reg |-> r.vehicle_reg, customer_phone |-> r.customer_phone,
     customer_name |-> r.customer_name]

\* SELECT ... WHERE draw_date = $1::date LIMIT 1 and res.json(rows[0] || null):
\* any one row of the day, the query states no order
GetWinner(p) ==
    \E date \in DateInputs :
        LET r == [NoReq EXCEPT !.op = "get", !.date = date]
            rows == DayRows(winners, isoDay(date))
        IN  /\ Accept(p)
            /\ UNCHANGED <<winners, nextId>>
            /\ IF rows = {}
               THEN Answer(p, r, Reply("200", ""))
               ELSE \E row \in rows : Answer(p, r, ReplyRow("200", winnerColumns(row)))

-----------------------------------------------------------------------------
(* approve_daily_free_candidate(p_candidate_id, p_draw_date, p_approver, p_note) *)

\* a nullable id is <<>> or <<id>>
SqlApproveArgs ==
    {[id |-> <<1>>, date |-> NoDate, note |-> NullText],
     [id |-> <<2>>, date |-> D1, note |-> Text(<<"picked by the manager">>)],
     [id |-> <<UnknownId>>, date |-> D1, note |-> NullText],
     [id |-> <<>>, date |-> D1, note |-> NullText]}

\* the NULL check and SELECT * INTO v_cand; v_date := COALESCE(...)
SqlApproveCand(p) ==
    \E a \in SqlApproveArgs :
        LET r == [NoReq EXCEPT !.op = "sql_approve", !.id = a.id, !.date = a.date,
                               !.note = a.note]
            found == IF a.id = <<>> THEN {} ELSE {c \in candidates : c.id = a.id[1]}
        IN  /\ Accept(p)
            /\ IF a.id = <<>>
               THEN Answer(p, r, Reply("EXCEPTION", MsgCandRequired))
               ELSE IF found = {}
               THEN Answer(p, r, Reply("EXCEPTION", MsgCandNotFound))
               ELSE \E v_cand \in found :
                        Await(p, r,
                              [drawDate |-> IF a.date # NoDate THEN a.date
                                            ELSE v_cand.draw_date,
                               winner |-> {v_cand}],
                              "sql_approve_exists")
            /\ UNCHANGED <<winners, nextId>>

\* SELECT id INTO v_exists ... AND status = 'APPROVED'
approvedExists(rows, v_date) == ApprovedRows(rows, v_date) # {}

SqlApproveExists(p) ==
    /\ Resume(p, "sql_approve_exists")
    /\ IF approvedExists(winners, loc[p].drawDate)
       THEN Answer(p, req[p], [Reply("EXCEPTION", MsgApprovedExists) EXCEPT
                                   !.date = loc[p].drawDate])
       ELSE Await(p, req[p], loc[p], "sql_approve_insert")
    /\ UNCHANGED <<winners, nextId>>

SqlApproveInsert(p) ==
    /\ Resume(p, "sql_approve_insert")
    /\ \E v_cand \in loc[p].winner :
        LET row == approveInsert(nextId + 1, loc[p].drawDate, v_cand, req[p].note)
        IN  IF uniq_approved_per_day(winners, row)
            THEN /\ winners' = winners \cup {row}
                 /\ nextId' = nextId + 1
                 /\ Answer(p, req[p], ReplyRow("RETURN", row))
            ELSE /\ Answer(p, req[p], Reply("EXCEPTION", MsgUnique))
                 /\ UNCHANGED <<winners, nextId>>

-----------------------------------------------------------------------------
(* revoke_daily_free_winner(p_winner_id, p_reason) *)

ReasonInputs == {NULL, "wrong plate"}

\* an UPDATE that lost its WHERE clause
revokeTargets_all(rows, p_winner_id) == rows

\* the rows the UPDATE ... WHERE id = p_winner_id touches
revokeTargets(rows, p_winner_id) == {r \in rows : r.id = p_winner_id}

SqlRevoke(p) ==
    \E wid \in {r.id : r \in winners} \cup {UnknownId}, reason \in ReasonInputs :
        LET r == [NoReq EXCEPT !.op = "sql_revoke", !.id = <<wid>>, !.reason = reason]
            hit == revokeTargets(winners, wid)
        IN  /\ Accept(p)
            /\ IF hit = {}
               THEN /\ Answer(p, r, Reply("EXCEPTION", MsgWinnerNotFound))
                    /\ UNCHANGED winners
               ELSE /\ winners' = (winners \ hit) \cup {revokeUpdate(w, reason) : w \in hit}
                    /\ Answer(p, r, [NoResp EXCEPT
                           !.status = "RETURN",
                           !.rows = {revokeUpdate(w, reason) : w \in hit}])
            /\ UNCHANGED nextId

-----------------------------------------------------------------------------
(* reschedule_daily_free_candidate(p_candidate_id, p_new_date) *)

SqlRescheduleArgs ==
    {[id |-> <<4>>, date |-> Today],
     [id |-> <<1>>, date |-> Today],
     [id |-> <<1>>, date |-> NoDate],
     [id |-> <<UnknownId>>, date |-> D1]}

\* a IS NOT DISTINCT FROM b: NULL equals NULL
NotDistinct(a, b) == a = b

\* COALESCE(NULLIF(UPPER(vehicle_reg), ''), '')
regKey(v) == IF v = NULL THEN "" ELSE toUpperCase(v)

\* SELECT id INTO v_dup: the rows of the new date with the customer and the
\* vehicle of the candidate, the candidate itself left out
dupRows(rows, v_cand, p_new_date) ==
    {c \in rows : /\ c.draw_date = p_new_date
                  /\ NotDistinct(c.customer_id, v_cand.customer_id)
                  /\ regKey(c.vehicle_reg) = regKey(v_cand.vehicle_reg)
                  /\ c.id # v_cand.id}

\* UNIQUE (draw_date, customer_id, vehicle_reg): whether the constraint admits
\* `row` next to the other rows; a NULL column never collides
uniq_candidates(rows, row) ==
    \A c \in rows :
        c.id # row.id =>
            ~ /\ c.draw_date = row.draw_date
              /\ c.customer_id # NULL /\ c.customer_id = row.customer_id
              /\ c.vehicle_reg # NULL /\ c.vehicle_reg = row.vehicle_reg

\* the NULL checks and SELECT * INTO v_cand
SqlRescheduleCand(p) ==
    \E a \in SqlRescheduleArgs :
        LET r == [NoReq EXCEPT !.op = "sql_reschedule", !.id = a.id, !.date = a.date]
            found == IF a.id = <<>> THEN {} ELSE {c \in candidates : c.id = a.id[1]}
        IN  /\ Accept(p)
            /\ IF a.id = <<>> \/ a.date = NoDate
               THEN Answer(p, r, Reply("EXCEPTION", MsgRescheduleRequired))
               ELSE IF found = {}
               THEN Answer(p, r, Reply("EXCEPTION", MsgCandNotFound))
               ELSE \E v_cand \in found :
                        Await(p, r, [drawDate |-> a.date, winner |-> {v_cand}],
                              "sql_reschedule_dup")
            /\ UNCHANGED <<winners, nextId>>

SqlRescheduleDup(p) ==
    /\ Resume(p, "sql_reschedule_dup")
    /\ \E v_cand \in loc[p].winner :
        IF dupRows(candidates, v_cand, loc[p].drawDate) # {}
        THEN Answer(p, req[p], [Reply("EXCEPTION", MsgCandExists) EXCEPT
                                    !.date = loc[p].drawDate])
        ELSE Await(p, req[p], loc[p], "sql_reschedule_update")
    /\ UNCHANGED <<winners, nextId>>

\* UPDATE daily_free_candidates SET draw_date = p_new_date WHERE id = ...
\* and the RETURN of the row as it then is (nothing when it is gone)
SqlRescheduleUpdate(p) ==
    /\ pc[p] = "sql_reschedule_update"
    /\ LET hit == {c \in candidates : c.id = req[p].id[1]}
           moved == {[c EXCEPT !.draw_date = loc[p].drawDate] : c \in hit}
       IN  IF \A row \in moved : uniq_candidates(candidates, row)
           THEN /\ candidates' = (candidates \ hit) \cup moved
                /\ Answer(p, req[p], [NoResp EXCEPT !.status = "RETURN",
                                                   !.cand = moved])
           ELSE /\ Answer(p, req[p], Reply("EXCEPTION", MsgUnique))
                /\ UNCHANGED candidates
    /\ UNCHANGED <<winners, nextId, calls, washes, ledgerVars>>

-----------------------------------------------------------------------------
(* The registry under concurrent requests *)

Next ==
    \E p \in Slots :
        \/ ApproveAssert(p)
        \/ ApproveInsert(p)
        \/ RescheduleAssert(p)
        \/ RescheduleInsert(p)
        \/ DrawExisted(p)
        \/ DrawCandidates(p)
        \/ DrawAssert(p)
        \/ DrawInsert(p)
        \/ Delete(p)
        \/ SqlApproveCand(p)
        \/ SqlApproveExists(p)
        \/ SqlApproveInsert(p)
        \/ SqlRevoke(p)

Spec == Init /\ [][Next]_vars

\* the requests that move a winner to another day, by the handler and by the
\* SQL function, next to the approvals and revocations they meet
NextReschedule ==
    \E p \in Slots :
        \/ ApproveAssert(p)
        \/ ApproveInsert(p)
        \/ RescheduleAssert(p)
        \/ RescheduleInsert(p)
        \/ SqlRevoke(p)
        \/ SqlRescheduleCand(p)
        \/ SqlRescheduleDup(p)
        \/ SqlRescheduleUpdate(p)

SpecReschedule == Init /\ [][NextReschedule]_vars

\* the reads of the winner of a day, next to the approvals and revocations
\* that decide what they find
NextRead ==
    \E p \in Slots :
        \/ GetWinner(p)
        \/ ApproveAssert(p)
        \/ ApproveInsert(p)
        \/ SqlApproveCand(p)
        \/ SqlApproveExists(p)
        \/ SqlApproveInsert(p)
        \/ SqlRevoke(p)

SpecRead == Init /\ [][NextRead]_vars

-----------------------------------------------------------------------------
(* The wash ledger: dates, money and tables *)

\* Timestamps are taken at mid-day, so the local and the UTC calendar day of
\* a wash agree; a day of the previous month next to Today
OctDay == <<2025, 10, 20>>

DaysIn(y, m) ==
    IF m \in {4, 6, 9, 11} THEN 30
    ELSE IF m # 2 THEN 31
    ELSE IF y % 4 = 0 THEN 29 ELSE 28

PrevDay(d) ==
    IF d[3] > 1 THEN <<d[1], d[2], d[3] - 1>>
    ELSE IF d[2] = 1 THEN <<d[1] - 1, 12, 31>>
    ELSE <<d[1], d[2] - 1, DaysIn(d[1], d[2] - 1)>>

\* COALESCE($n::timestamptz, now())
OrNow(washedAt) == IF washedAt = NoDate THEN Today ELSE washedAt

\* firstDayOfMonth(d): local midnight of the first day of d's month
firstDayOfMonth(washedAt) == <<OrNow(washedAt)[1], OrNow(washedAt)[2], 1>>

\* .toISOString().slice(0, 10) of a local midnight: the UTC calendar day of
\* that instant, which is the day before when local time is ahead of UTC
toISOStringDay(localMidnight, zone) ==
    IF zone > 0 THEN PrevDay(localMidnight) ELSE localMidnight

\* date_trunc('month', a) = date_trunc('month', b), and the month bounds
\* [monthStart, monthEnd) of hasUsedFeaturedRewardThisMonth
SameMonth(a, b) == a[1] = b[1] /\ a[2] = b[2]

\* Money: request prices in thousandths of the currency unit (a caller may
\* send more than two decimals), stored amounts in cents.

\* Math.round(n / d), d > 0: the nearest integer; at an exact half the
\* floating-point error of the operands decides between the two neighbours
MathRound(n, d) ==
    IF (2 * n) % (2 * d) = d
    THEN {(2 * n - d) \div (2 * d), (2 * n + d) \div (2 * d)}
    ELSE {(2 * n + d) \div (2 * d)}

\* a value bound to a NUMERIC(12,2) column: rounded half away from zero
numeric2(mills) == (mills + 5) \div 10

\* Math.round(((Number(price) * pct) / 100.0) * 100) / 100, in cents
commissionAmount(price, pct) == MathRound(price * pct, 1000)

\* Math.round((Number(price) - commission_amount) * 100) / 100, in cents
profitAmount(price, commission_amount, pct) == MathRound(price - 10 * commission_amount, 10)

\* a table without the constraint
chk_money_dropped(row) == TRUE

\* CONSTRAINT chk_money CHECK (commission_amount + profit_amount = unit_price)
chk_money(row) == row.commission_amount + row.profit_amount = row.unit_price

\* the CHECKs of the columns unit_price and commission_pct
chk_columns(row) ==
    /\ row.unit_price >= 0
    /\ row.commission_pct >= 0
    /\ row.commission_pct <= 100

\* commission_pct = 30.0 of the destructured body
DefaultCommissionPct == 30
\* (cnt + 1) % 13 === 0
LoyaltyEvery == 13

\* service_prices: price in cents
PriceRows == {[service_id |-> "s1", car_type_id |-> "t1", price |-> 50000]}

\* promotions.code of the three reward tracks
FREE_WASH == "FREE_WASH"
LOYALTY_13TH == "LOYALTY_13TH"
FEATURED_VEHICLE == "FEATURED_VEHICLE"

\* SELECT id FROM promotions WHERE code = ... AND is_active = TRUE; the id of
\* a promotion is written as its code
getPromoId(promos, code) == {q.code : q \in {r \in promos : r.code = code /\ r.is_active}}

\* featured_vehicles: a plate and the first day of its month
FeaturedRows == {[vehicle_reg |-> "KBB 222B", month |-> <<2025, 11, 1>>]}

\* isVehicleFeaturedForMonth: the rows found
isVehicleFeaturedForMonth(vehicle_reg, washedAt, zone) ==
    IF vehicle_reg \in {NULL, ""} THEN {}
    ELSE {f \in FeaturedRows :
            /\ f.vehicle_reg = trim(vehicle_reg)
            /\ f.month = toISOStringDay(firstDayOfMonth(washedAt), zone)}

\* hasUsedFeaturedRewardThisMonth
hasUsedFeaturedRewardThisMonth(rows, promos, vehicle_reg, washedAt) ==
    /\ vehicle_reg \notin {NULL, ""}
    /\ \E w \in rows :
        /\ w.vehicle_reg = trim(vehicle_reg)
        /\ w.is_free
        /\ \E q \in promos : <<q.code>> = w.promo_id /\ q.code = FEATURED_VEHICLE
        /\ SameMonth(w.washed_at, firstDayOfMonth(washedAt))

\* countCustomerWashesThisMonth; a customer id is <<>> or <<id>>
countCustomerWashesThisMonth(rows, customerId, washedAt) ==
    IF customerId = <<>> THEN 0
    ELSE Cardinality({w \in rows : /\ w.customer_id = customerId
                                   /\ SameMonth(w.washed_at, OrNow(washedAt))})

\* the 14th wash instead of the 13th
loyaltyDue_late(cnt) == cnt % LoyaltyEvery = 0 /\ cnt > 0

\* (cnt + 1) % 13 === 0
loyaltyDue(cnt) == (cnt + 1) % LoyaltyEvery = 0

\* countFreeToday: is_free = TRUE AND DATE(washed_at) = CURRENT_DATE
countFreeToday(rows) == Cardinality({w \in rows : w.is_free /\ w.washed_at = Today})

\* Math.random() < prob, prob in hundredths: the outcomes a draw can have
randomDraw(prob) == {hit \in BOOLEAN : (hit => prob > 0) /\ (~hit => prob < 100)}

-----------------------------------------------------------------------------
(* The wash ledger: requests, rows and the initial store *)

\* wash requests in a run, and queries that fail in a run
MaxWashCalls == 2
MaxFaults == 1

NoWashReq ==
    [op |-> "none", id |-> UnknownId, service_id |-> NULL, car_type_id |-> NULL,
     unit_price |-> <<>>, washed_at |-> NoDate, commission_pct |-> <<>>,
     customer_name |-> NULL, customer_phone |-> NULL, vehicle_reg |-> NULL]

\* the local variables of POST / (and existingRows[0].unit_price of PUT /:id);
\* skipped: the catch of the evaluation has run; draw: whether Math.random()
\* came out below the probability, <<>> while it has not been called
NoWashLoc ==
    [price |-> 0, customer |-> {}, customerId |-> <<>>, isFree |-> FALSE,
     promoId |-> <<>>, commissionPctEffective |-> 0, skipped |-> FALSE,
     draw |-> <<>>, wash |-> {}]

NoWashResp == [status |-> "none", error |-> "", rows |-> {}]
NoWashLast == [req |-> NoWashReq, resp |-> NoWashResp, loc |-> NoWashLoc]

WashReply(status, error) == [NoWashResp EXCEPT !.status = status, !.error = error]
WashReplyRow(status, row) == [NoWashResp EXCEPT !.status = status, !.rows = {row}]

MsgRequired == "service_id and car_type_id are required."
MsgNoPrice == "Price not configured for service & car type."
MsgCreateFailed == "Failed to create wash record."
MsgWashNotFound == "Wash record not found."
MsgUpdateFailed == "Failed to update wash record."

\* the bodies callers send to POST /
CreateBodies ==
    {[NoWashReq EXCEPT !.op = "create", !.service_id = "s1", !.car_type_id = "t1",
                       !.customer_name = "Asha", !.customer_phone = "0711",
                       !.vehicle_reg = "KAA 111A"],
     [NoWashReq EXCEPT !.op = "create", !.service_id = "s1", !.car_type_id = "t1",
                       !.unit_price = <<1200000>>, !.commission_pct = <<10>>,
                       !.customer_name = "Yusuf", !.vehicle_reg = "KBB 222B"],
     [NoWashReq EXCEPT !.op = "create", !.service_id = "s1", !.car_type_id = "t1",
                       !.unit_price = <<10005>>],
     [NoWashReq EXCEPT !.op = "create", !.service_id = "s1", !.car_type_id = "t1",
                       !.unit_price = <<200000>>, !.commission_pct = <<150>>,
                       !.washed_at = OctDay,
                       !.customer_name = "Omar", !.customer_phone = "0733"],
     [NoWashReq EXCEPT !.op = "create", !.service_id = "s2", !.car_type_id = "t1",
                       !.customer_phone = "0711"],
     [NoWashReq EXCEPT !.op = "create", !.car_type_id = "t1"]}

\* a body sent only by callers that take turns: customer 1 in the featured car
TurnBodies ==
    {[NoWashReq EXCEPT !.op = "create", !.service_id = "s1", !.car_type_id = "t1",
                       !.customer_phone = "0711", !.vehicle_reg = "KBB 222B"]}

\* the washes of customer 1 before the run: eleven paid washes of this month
PriorWashes == 1..11
PriorDay == <<2025, 11, 3>>

\* a body sent to PUT /:id only by callers that take turns: a price for the
\* first wash of the run
TurnUpdates ==
    {[NoWashReq EXCEPT !.op = "update", !.id = Cardinality(PriorWashes) + 1,
                       !.unit_price = <<250000>>]}

LedgerRows ==
    {[id |-> i, customer_id |-> <<1>>, vehicle_reg |-> "KAA 111A",
      unit_price |-> 50000, commission_pct |-> DefaultCommissionPct,
      commission_amount |-> 15000, profit_amount |-> 35000,
      washed_at |-> PriorDay, promo_id |-> <<>>, is_free |-> FALSE] : i \in PriorWashes}

LedgerCustomers ==
    {[id |-> 1, name |-> "Asha", phone |-> "0711", vehicle_reg |-> "KAA 111A",
      visits_count |-> Cardinality(PriorWashes)]}

AllPromotions ==
    {[code |-> FREE_WASH, is_active |-> TRUE],
     [code |-> LOYALTY_13TH, is_active |-> TRUE],
     [code |-> FEATURED_VEHICLE, is_active |-> TRUE]}

\* the deployments the ledger runs in: the settings row, the promotions and
\* the time zone of the server
Deployments ==
    {[tz |-> 0, settings |-> NoSettings, promotions |-> AllPromotions],
     [tz |-> 3, settings |-> NoSettings, promotions |-> AllPromotions],
     [tz |-> 0,
      settings |-> [promo_free_enabled |-> TRUE, promo_free_prob |-> 100,
                    promo_free_min_visits |-> 1, promo_free_daily_cap |-> 1,
                    featured_free_once_per_month |-> TRUE],
      promotions |-> {[code |-> FREE_WASH, is_active |-> TRUE],
                      [code |-> LOYALTY_13TH, is_active |-> FALSE],
                      [code |-> FEATURED_VEHICLE, is_active |-> TRUE]}],
     [tz |-> 0,
      settings |-> [promo_free_enabled |-> TRUE, promo_free_prob |-> 50,
                    promo_free_min_visits |-> 0, promo_free_daily_cap |-> 0,
                    featured_free_once_per_month |-> FALSE],
      promotions |-> AllPromotions]}

InitWash ==
    /\ winners = {}
    /\ candidates = {}
    /\ washes = LedgerRows
    /\ customers = LedgerCustomers
    /\ nextId = Cardinality(PriorWashes)
    /\ calls = 0
    /\ faults = 0
    /\ pc = [p \in Slots |-> "idle"]
    /\ req = [p \in Slots |-> NoWashReq]
    /\ loc = [p \in Slots |-> NoWashLoc]
    /\ last = NoWashLast
    /\ clock = ClockStart
    /\ users = UserRows
    /\ \E d \in Deployments :
        /\ tz = d.tz
        /\ settings = d.settings
        /\ promotions = d.promotions

-----------------------------------------------------------------------------
(* The wash ledger: steps shared by its handlers *)

\* the tables and counters no handler of the ledger writes
ledgerFixed == <<winners, candidates, settings, promotions, tz, clock, users>>

\* a request enters at its first awaited query and takes the first free slot
WashAccept(p, max) ==
    /\ pc[p] = "idle"
    /\ \A q \in Slots : q < p => pc[q] # "idle"
    /\ calls < max
    /\ calls' = calls + 1
    /\ UNCHANGED ledgerFixed

WashResume(p, at) ==
    /\ pc[p] = at
    /\ UNCHANGED <<calls, ledgerFixed>>

\* the request goes on to its next query
WashAwait(p, r, l, at) ==
    /\ pc' = [pc EXCEPT ![p] = at]
    /\ req' = [req EXCEPT ![p] = r]
    /\ loc' = [loc EXCEPT ![p] = l]
    /\ UNCHANGED last

\* the request is answered and its slot is free again
WashAnswer(p, r, l, response) ==
    /\ last' = [req |-> r, resp |-> response, loc |-> l]
    /\ pc' = [pc EXCEPT ![p] = "idle"]
    /\ req' = [req EXCEPT ![p] = NoWashReq]
    /\ loc' = [loc EXCEPT ![p] = NoWashLoc]

\* an awaited query either returns, or throws while the run may still fail
Returns == faults' = faults
Throws == faults < MaxFaults /\ faults' = faults + 1

\* catch (promoErr): isFree = false; price, commissionPctEffective, promoId
\* and customerId keep what the evaluation had assigned before the throw
promoCatch(l) == [l EXCEPT !.isFree = FALSE, !.skipped = TRUE]

\* the query of an evaluation step throws: the evaluation is skipped and
\* the handler goes on to the INSERT
PromoThrows(p, l) ==
    /\ Throws
    /\ WashAwait(p, req[p], promoCatch(l), "insert")

\* an evaluation that runs the later checks after a grant too
afterFeatured_unguarded(l) ==
    IF l.customerId # <<>> THEN "loyalty_count" ELSE "random_visits"

\* where the evaluation goes on after the featured check
afterFeatured(l) ==
    IF ~l.isFree /\ l.customerId # <<>> THEN "loyalty_count"
    ELSE IF ~l.isFree THEN "random_visits"
    ELSE "insert"

-----------------------------------------------------------------------------
(* POST / of the washes router: create a wash *)

\* SELECT price FROM service_prices WHERE service_id = $1 AND car_type_id = $2
priceRows(b) ==
    {r \in PriceRows : r.service_id = b.service_id /\ r.car_type_id = b.car_type_id}

\* the SELECTs of upsertCustomer: by phone, and when that finds nothing by
\* vehicle_reg; rows[0] of either
findCustomer(rows, phone, vehicle_reg) ==
    LET byPhone == IF phone \in {NULL, ""} THEN {} ELSE {c \in rows : c.phone = phone}
        byReg == IF vehicle_reg \in {NULL, ""} THEN {}
                 ELSE {c \in rows : c.vehicle_reg = vehicle_reg}
    IN  IF byPhone # {} THEN byPhone ELSE byReg

\* idx_customers_phone: whether the index admits `row`
uniq_customers_phone(rows, row) ==
    row.phone # NULL => \A c \in rows : c.phone # row.phone

\* the row upsertCustomer inserts
newCustomer(id, b) ==
    [id |-> id, name |-> OrNull(b.customer_name), phone |-> OrNull(b.customer_phone),
     vehicle_reg |-> OrNull(b.vehicle_reg), visits_count |-> 0]

\* SET name = COALESCE($1, name), vehicle_reg = COALESCE($2, vehicle_reg)
touchCustomer(c, b) ==
    [c EXCEPT !.name = IF OrNull(b.customer_name) # NULL THEN b.customer_name ELSE @,
              !.vehicle_reg = IF OrNull(b.vehicle_reg) # NULL THEN b.vehicle_reg ELSE @]

\* the checks of the body, the price lookup and the SELECTs of upsertCustomer
CreateFrom(p, bodies, max) ==
    \E b \in bodies :
        LET l0 == [NoWashLoc EXCEPT
                      !.commissionPctEffective =
                          IF b.commission_pct = <<>> THEN DefaultCommissionPct
                          ELSE b.commission_pct[1]]
            anonymous == b.customer_phone \in {NULL, ""} /\ b.vehicle_reg \in {NULL, ""}
        IN  /\ WashAccept(p, max)
            /\ UNCHANGED <<washes, customers, nextId>>
            /\ IF b.service_id = NULL \/ b.car_type_id = NULL
               THEN Returns /\ WashAnswer(p, b, l0, WashReply("400", MsgRequired))
               ELSE IF b.unit_price = <<>> /\ priceRows(b) = {}
               THEN \/ Returns /\ WashAnswer(p, b, l0, WashReply("400", MsgNoPrice))
                    \/ Throws /\ WashAnswer(p, b, l0, WashReply("500", MsgCreateFailed))
               ELSE \E price \in IF b.unit_price = <<>>
                                 THEN {10 * r.price : r \in priceRows(b)}
                                 ELSE {b.unit_price[1]} :
                        LET l1 == [l0 EXCEPT !.price = price]
                        IN  \/ /\ b.unit_price = <<>>
                               /\ Throws
                               /\ WashAnswer(p, b, l0, WashReply("500", MsgCreateFailed))
                            \/ /\ anonymous
                               /\ Returns
                               /\ WashAwait(p, b, l1, "featured")
                            \/ /\ ~anonymous
                               /\ Returns
                               /\ LET found == findCustomer(customers, b.customer_phone,
                                                            b.vehicle_reg)
                                  IN  IF found = {}
                                      THEN WashAwait(p, b, l1, "upsert_write")
                                      ELSE \E c \in found :
                                               WashAwait(p, b, [l1 EXCEPT !.customer = {c}],
                                                         "upsert_write")
                            \/ /\ ~anonymous
                               /\ Throws
                               /\ WashAwait(p, b, promoCatch(l1), "insert")

CreateStart(p) == CreateFrom(p, CreateBodies, MaxWashCalls)

\* the INSERT or the UPDATE of upsertCustomer
UpsertWrite(p) ==
    /\ WashResume(p, "upsert_write")
    /\ UNCHANGED <<washes, nextId>>
    /\ \/ /\ Returns
          /\ IF loc[p].customer = {}
             THEN LET row == newCustomer(1 + Cardinality(customers), req[p])
                  IN  IF uniq_customers_phone(customers, row)
                      THEN /\ customers' = customers \cup {row}
                           /\ WashAwait(p, req[p], [loc[p] EXCEPT !.customerId = <<row.id>>],
                                        "featured")
                      ELSE /\ UNCHANGED customers
                           /\ WashAwait(p, req[p], promoCatch(loc[p]), "insert")
             ELSE \E c \in loc[p].customer :
                      /\ customers' = {IF x.id = c.id THEN touchCustomer(x, req[p]) ELSE x :
                                          x \in customers}
                      /\ WashAwait(p, req[p], [loc[p] EXCEPT !.customerId = <<c.id>>],
                                   "featured")
       \/ PromoThrows(p, loc[p]) /\ UNCHANGED customers

\* isFree = true; price = 0; commissionPctEffective = 0; promoId = ...
grant(l, promoId) ==
    [l EXCEPT !.isFree = TRUE, !.price = 0, !.commissionPctEffective = 0,
              !.promoId = promoId]

\* const canGrant = enforceOnce ? !alreadyUsed : true
canGrant(enforceOnce, alreadyUsed) == IF enforceOnce THEN ~alreadyUsed ELSE TRUE

\* (0) the featured vehicle check: isVehicleFeaturedForMonth, and for a
\* featured plate hasUsedFeaturedRewardThisMonth, getAppSettings and
\* getFeaturedPromoId; only the second reads a table the ledger writes
Featured(p) ==
    /\ WashResume(p, "featured")
    /\ UNCHANGED <<washes, customers, nextId>>
    /\ LET b == req[p]
           featured == isVehicleFeaturedForMonth(b.vehicle_reg, b.washed_at, tz)
           alreadyUsed == hasUsedFeaturedRewardThisMonth(washes, promotions,
                                                         b.vehicle_reg, b.washed_at)
           enforceOnce == settings.featured_free_once_per_month # FALSE
           fPromo == getPromoId(promotions, FEATURED_VEHICLE)
           l == IF featured # {} /\ canGrant(enforceOnce, alreadyUsed) /\ fPromo # {}
                THEN grant(loc[p], <<FEATURED_VEHICLE>>)
                ELSE loc[p]
       IN  \/ Returns /\ WashAwait(p, b, l, afterFeatured(l))
           \/ b.vehicle_reg \notin {NULL, ""} /\ PromoThrows(p, loc[p])

\* (1) the loyalty check: countCustomerWashesThisMonth
LoyaltyCount(p) ==
    /\ WashResume(p, "loyalty_count")
    /\ UNCHANGED <<washes, customers, nextId>>
    /\ LET cnt == countCustomerWashesThisMonth(washes, loc[p].customerId,
                                               req[p].washed_at)
       IN  \/ /\ Returns
              /\ IF loyaltyDue(cnt)
                 THEN WashAwait(p, req[p], grant(loc[p], <<>>), "loyalty_promo")
                 ELSE WashAwait(p, req[p], loc[p], "random_visits")
           \/ PromoThrows(p, loc[p])

\* promoId = await getLoyaltyPromoId(), after the grant was assigned
LoyaltyPromo(p) ==
    /\ WashResume(p, "loyalty_promo")
    /\ UNCHANGED <<washes, customers, nextId>>
    /\ \/ /\ Returns
          /\ WashAwait(p, req[p],
                       [loc[p] EXCEPT !.promoId =
                           IF getPromoId(promotions, LOYALTY_13TH) = {} THEN <<>>
                           ELSE <<LOYALTY_13TH>>],
                       "insert")
       \/ PromoThrows(p, loc[p])

\* (2) the random promo: getAppSettings and SELECT visits_count
RandomVisits(p) ==
    /\ WashResume(p, "random_visits")
    /\ UNCHANGED <<washes, customers, nextId>>
    /\ LET promoEnabled == settings.promo_free_enabled
           minVisits == settings.promo_free_min_visits
           crow == {c \in customers : <<c.id>> = loc[p].customerId}
           visits == IF crow = {} THEN 0 ELSE (CHOOSE c \in crow : TRUE).visits_count
       IN  \/ /\ Returns
              /\ IF promoEnabled /\ loc[p].customerId # <<>> /\ visits >= minVisits
                 THEN WashAwait(p, req[p], loc[p], "random_cap")
                 ELSE WashAwait(p, req[p], loc[p], "insert")
           \/ PromoThrows(p, loc[p])

\* const underCap = !dailyCap || todayUsed < dailyCap
underCap(dailyCap, todayUsed) == dailyCap = 0 \/ todayUsed < dailyCap

\* countFreeToday, the draw and getFreePromoId
RandomCap(p) ==
    /\ WashResume(p, "random_cap")
    /\ UNCHANGED <<washes, customers, nextId>>
    /\ \/ /\ Returns
          /\ IF underCap(settings.promo_free_daily_cap, countFreeToday(washes))
             THEN \E hit \in randomDraw(settings.promo_free_prob) :
                    LET l == [loc[p] EXCEPT !.draw = <<hit>>]
                    IN  IF hit /\ getPromoId(promotions, FREE_WASH) # {}
                        THEN WashAwait(p, req[p], grant(l, <<FREE_WASH>>), "insert")
                        ELSE WashAwait(p, req[p], l, "insert")
             ELSE WashAwait(p, req[p], loc[p], "insert")
       \/ PromoThrows(p, loc[p])

\* a row that never records a reward
newWash_paid(id, b, l, commission_amount, profit_amount) ==
    [id |-> id, customer_id |-> l.customerId, vehicle_reg |-> OrNull(b.vehicle_reg),
     unit_price |-> numeric2(l.price), commission_pct |-> l.commissionPctEffective,
     commission_amount |-> commission_amount, profit_amount |-> profit_amount,
     washed_at |-> OrNow(b.washed_at), promo_id |-> <<>>, is_free |-> FALSE]

\* the row of the INSERT INTO washes
newWash(id, b, l, commission_amount, profit_amount) ==
    [id |-> id, customer_id |-> l.customerId, vehicle_reg |-> OrNull(b.vehicle_reg),
     unit_price |-> numeric2(l.price), commission_pct |-> l.commissionPctEffective,
     commission_amount |-> commission_amount, profit_amount |-> profit_amount,
     washed_at |-> OrNow(b.washed_at), promo_id |-> l.promoId, is_free |-> l.isFree]

\* the commission and the profit, the receipt number (its SELECTs write
\* nothing and are steps of their own in the receipt section below; a throw
\* of one of them is answered like a throw of the INSERT) and the INSERT
\* under the table's CHECKs; a rejected INSERT is answered 500
Insert(p) ==
    /\ WashResume(p, "insert")
    /\ UNCHANGED customers
    /\ \/ /\ Returns
          /\ \E commission_amount \in commissionAmount(loc[p].price,
                                                       loc[p].commissionPctEffective) :
             \E profit_amount \in profitAmount(loc[p].price, commission_amount,
                                               loc[p].commissionPctEffective) :
                LET row == newWash(nextId + 1, req[p], loc[p], commission_amount,
                                   profit_amount)
                IN  IF chk_columns(row) /\ chk_money(row)
                    THEN /\ washes' = washes \cup {row}
                         /\ nextId' = nextId + 1
                         /\ IF loc[p].customerId # <<>>
                            THEN WashAwait(p, req[p], [loc[p] EXCEPT !.wash = {row}],
                                           "visits")
                            ELSE WashAnswer(p, req[p], loc[p], WashReplyRow("201", row))
                    ELSE /\ UNCHANGED <<washes, nextId>>
                         /\ WashAnswer(p, req[p], loc[p], WashReply("500", MsgCreateFailed))
       \/ /\ Throws
          /\ UNCHANGED <<washes, nextId>>
          /\ WashAnswer(p, req[p], loc[p], WashReply("500", MsgCreateFailed))

\* UPDATE customers SET visits_count = visits_count + 1, and res.status(201)
Visits(p) ==
    /\ WashResume(p, "visits")
    /\ UNCHANGED <<washes, nextId>>
    /\ \/ /\ Returns
          /\ customers' = {IF <<c.id>> = loc[p].customerId
                           THEN [c EXCEPT !.visits_count = @ + 1] ELSE c : c \in customers}
          /\ WashAnswer(p, req[p], loc[p],
                        [NoWashResp EXCEPT !.status = "201", !.rows = loc[p].wash])
       \/ /\ Throws
          /\ UNCHANGED customers
          /\ WashAnswer(p, req[p], loc[p], WashReply("500", MsgCreateFailed))


-----------------------------------------------------------------------------
(* PUT /:id of the washes router: update a wash *)

UpdateBodies ==
    {[NoWashReq EXCEPT !.op = "update", !.id = 1, !.unit_price = <<10005>>],
     [NoWashReq EXCEPT !.op = "update", !.id = Cardinality(PriorWashes) + 1,
                       !.commission_pct = <<50>>, !.washed_at = OctDay],
     [NoWashReq EXCEPT !.op = "update", !.id = UnknownId]}

\* SELECT * FROM washes WHERE id = $1 and
\* const price = unit_price ?? existingRows[0].unit_price
UpdateFrom(p, bodies) ==
    \E b \in bodies :
        LET existingRows == {w \in washes : w.id = b.id}
            pct == IF b.commission_pct = <<>> THEN DefaultCommissionPct
                   ELSE b.commission_pct[1]
        IN  /\ WashAccept(p, MaxWashCalls)
            /\ UNCHANGED <<washes, customers, nextId>>
            /\ \/ /\ Returns
                  /\ IF existingRows = {}
                     THEN WashAnswer(p, b, NoWashLoc, WashReply("404", MsgWashNotFound))
                     ELSE \E w \in existingRows :
                            WashAwait(p, b,
                                      [NoWashLoc EXCEPT
                                          !.price = IF b.unit_price = <<>>
                                                    THEN 10 * w.unit_price
                                                    ELSE b.unit_price[1],
                                          !.commissionPctEffective = pct],
                                      "update_write")
               \/ Throws /\ WashAnswer(p, b, NoWashLoc, WashReply("500", MsgUpdateFailed))

UpdateSelect(p) == UpdateFrom(p, UpdateBodies)

\* the SET clause of UPDATE washes
updatedWash(w, b, l, commission_amount, profit_amount) ==
    [w EXCEPT !.unit_price = numeric2(l.price),
              !.commission_pct = l.commissionPctEffective,
              !.commission_amount = commission_amount,
              !.profit_amount = profit_amount,
              !.washed_at = IF b.washed_at = NoDate THEN @ ELSE b.washed_at]

\* the commission and the profit, and the UPDATE under the table's CHECKs
UpdateWrite(p) ==
    /\ WashResume(p, "update_write")
    /\ UNCHANGED <<customers, nextId>>
    /\ \/ /\ Returns
          /\ \E commission_amount \in commissionAmount(loc[p].price,
                                                       loc[p].commissionPctEffective) :
             \E profit_amount \in profitAmount(loc[p].price, commission_amount,
                                               loc[p].commissionPctEffective) :
                LET hit == {w \in washes : w.id = req[p].id}
                    rows == {updatedWash(w, req[p], loc[p], commission_amount,
                                         profit_amount) : w \in hit}
                IN  IF \A row \in rows : chk_columns(row) /\ chk_money(row)
                    THEN /\ washes' = (washes \ hit) \cup rows
                         /\ WashAnswer(p, req[p], loc[p],
                                       [NoWashResp EXCEPT !.status = "200", !.rows = rows])
                    ELSE /\ UNCHANGED washes
                         /\ WashAnswer(p, req[p], loc[p], WashReply("500", MsgUpdateFailed))
       \/ /\ Throws
          /\ UNCHANGED washes
          /\ WashAnswer(p, req[p], loc[p], WashReply("500", MsgUpdateFailed))

-----------------------------------------------------------------------------
(* The wash ledger under concurrent requests *)

NextWash ==
    \E p \in Slots :
        \/ CreateStart(p)
        \/ UpsertWrite(p)
        \/ Featured(p)
        \/ LoyaltyCount(p)
        \/ LoyaltyPromo(p)
        \/ RandomVisits(p)
        \/ RandomCap(p)
        \/ Insert(p)
        \/ Visits(p)
        \/ UpdateSelect(p)
        \/ UpdateWrite(p)

SpecWash == InitWash /\ [][NextWash]_vars

\* no request is in flight
Alone == \A q \in Slots : pc[q] = "idle"

\* a request that enters when the one before has been answered
CreateStartAlone(p) ==
    Alone /\ CreateFrom(p, CreateBodies \cup TurnBodies, MaxWashCalls)
UpdateSelectAlone(p) == Alone /\ UpdateFrom(p, UpdateBodies \cup TurnUpdates)

\* the same requests, one entering only after the one before was answered
NextWashSequential ==
    \E p \in Slots :
        \/ CreateStartAlone(p)
        \/ UpsertWrite(p)
        \/ Featured(p)
        \/ LoyaltyCount(p)
        \/ LoyaltyPromo(p)
        \/ RandomVisits(p)
        \/ RandomCap(p)
        \/ Insert(p)
        \/ Visits(p)
        \/ UpdateSelectAlone(p)
        \/ UpdateWrite(p)

SpecWashSequential == InitWash /\ [][NextWashSequential]_vars

-----------------------------------------------------------------------------
(* The wash ledger when the rewards of two requests are due at once, in a *)
(* run in which no query fails                                            *)

\* create requests in such a run, two of them in flight at a time
MaxOverlapCalls == 4

\* the customer with a reward due and the featured car
OverlapBodies == {b \in CreateBodies : b.customer_name \in {"Asha", "Yusuf"}}

\* the twelfth wash of customer 1 this month: the next one is the 13th
TwelfthWash ==
    {[id |-> Cardinality(PriorWashes) + 1, customer_id |-> <<1>>,
      vehicle_reg |-> "KAA 111A", unit_price |-> 50000,
      commission_pct |-> DefaultCommissionPct, commission_amount |-> 15000,
      profit_amount |-> 35000, washed_at |-> PriorDay, promo_id |-> <<>>,
      is_free |-> FALSE]}

InitOverlap ==
    /\ winners = {}
    /\ candidates = {}
    /\ washes = LedgerRows \cup TwelfthWash
    /\ customers = {[c EXCEPT !.visits_count = @ + 1] : c \in LedgerCustomers}
    /\ nextId = Cardinality(LedgerRows \cup TwelfthWash)
    /\ calls = 0
    /\ faults = MaxFaults
    /\ pc = [p \in Slots |-> "idle"]
    /\ req = [p \in Slots |-> NoWashReq]
    /\ loc = [p \in Slots |-> NoWashLoc]
    /\ last = NoWashLast
    /\ clock = ClockStart
    /\ users = UserRows
    /\ tz = 0
    /\ settings = NoSettings
    /\ promotions = AllPromotions

CreateOverlap(p) == CreateFrom(p, OverlapBodies, MaxOverlapCalls)

\* the slots of the two requests that overlap
Pair == {p \in Slots : p <= 2}

NextOverlap ==
    \E p \in Pair :
        \/ CreateOverlap(p)
        \/ UpsertWrite(p)
        \/ Featured(p)
        \/ LoyaltyCount(p)
        \/ LoyaltyPromo(p)
        \/ RandomVisits(p)
        \/ Insert(p)
        \/ Visits(p)

SpecOverlap == InitOverlap /\ [][NextOverlap]_vars

-----------------------------------------------------------------------------
(* The wash ledger: receipt numbers *)

\* Date.now().toString().slice(-5) keeps the last five digits
SliceDigits == 100000

\* for (let i = 0; i < 5; i++)
RetryLimit == 5

\* Math.floor(Math.random() * 90 + 10) lies in 10..99; the draws of a run
rndDigits == {10, 99}

\* `${prefix}${ts}${rnd}`: the prefix, five digits and two digits
generateReceiptID(now, rnd) == <<"SH", now % SliceDigits, rnd>>

\* `SH${Date.now()}`
fallbackReceiptNo(now) == <<"SH", now>>

\* milliseconds that pass in a run
MaxTicks == 1

\* the local variables of generateUniqueReceiptNo and receiptNo of POST /
NoReceiptLoc == [i |-> 0, candidate |-> <<>>, receiptNo |-> <<>>]

\* receipt numbers already stored: both draws of the starting millisecond,
\* left by washes of this or of an earlier period of 100 seconds
ReceiptRows ==
    {[id |-> 1, receipt_no |-> generateReceiptID(ClockStart, 10)],
     [id |-> 2, receipt_no |-> generateReceiptID(ClockStart - SliceDigits, 99)]}

InitReceipt ==
    /\ winners = {}
    /\ candidates = {}
    /\ washes = ReceiptRows
    /\ customers = {}
    /\ nextId = Cardinality(ReceiptRows)
    /\ calls = 0
    /\ faults = 0
    /\ pc = [p \in Slots |-> "idle"]
    /\ req = [p \in Slots |-> NoWashReq]
    /\ loc = [p \in Slots |-> NoReceiptLoc]
    /\ last = [req |-> NoWashReq, resp |-> NoWashResp, loc |-> NoReceiptLoc]
    /\ settings = NoSettings
    /\ promotions = AllPromotions
    /\ tz = 0
    /\ clock = ClockStart
    /\ users = UserRows

\* a millisecond passes
Tick ==
    /\ clock < ClockStart + MaxTicks
    /\ clock' = clock + 1
    /\ UNCHANGED <<winners, candidates, washes, customers, nextId, calls, faults, pc,
                   req, loc, last, settings, promotions, tz, users>>

\* the loop goes round again
retry_forever(i) == TRUE

\* i < 5, after i++
retry(i) == i < RetryLimit

\* POST / reaches `await generateUniqueReceiptNo()`: the first candidate is
\* generated and its SELECT is sent
ReceiptStart(p) ==
    /\ WashAccept(p, MaxWashCalls)
    /\ UNCHANGED <<washes, customers, nextId, faults>>
    /\ \E rnd \in rndDigits :
         WashAwait(p, [NoWashReq EXCEPT !.op = "create"],
                   [NoReceiptLoc EXCEPT !.candidate = generateReceiptID(clock, rnd)],
                   "receipt_check")

\* SELECT 1 FROM washes WHERE receipt_no = $1 answers: the candidate is
\* returned, or the next one is generated, or the loop ends in the fallback
ReceiptCheck(p) ==
    /\ WashResume(p, "receipt_check")
    /\ UNCHANGED <<washes, customers, nextId>>
    /\ \/ /\ Returns
          /\ LET rows == {w \in washes : w.receipt_no = loc[p].candidate}
                 l == loc[p]
             IN  IF rows = {}
                 THEN WashAwait(p, req[p], [l EXCEPT !.receiptNo = l.candidate],
                                "receipt_insert")
                 ELSE IF retry(l.i + 1)
                 THEN \E rnd \in rndDigits :
                          WashAwait(p, req[p],
                                    [l EXCEPT !.i = @ + 1,
                                              !.candidate = generateReceiptID(clock, rnd)],
                                    "receipt_check")
                 ELSE WashAwait(p, req[p],
                                [l EXCEPT !.i = @ + 1,
                                          !.receiptNo = fallbackReceiptNo(clock)],
                                "receipt_insert")
       \/ /\ Throws
          /\ WashAnswer(p, req[p], loc[p], WashReply("500", MsgCreateFailed))

\* INSERT INTO washes (..., receipt_no, ...): no constraint is on receipt_no
ReceiptInsert(p) ==
    /\ WashResume(p, "receipt_insert")
    /\ UNCHANGED customers
    /\ \/ /\ Returns
          /\ LET row == [id |-> nextId + 1, receipt_no |-> loc[p].receiptNo]
             IN  /\ washes' = washes \cup {row}
                 /\ nextId' = nextId + 1
                 /\ WashAnswer(p, req[p], loc[p], WashReplyRow("201", row))
       \/ /\ Throws
          /\ UNCHANGED <<washes, nextId>>
          /\ WashAnswer(p, req[p], loc[p], WashReply("500", MsgCreateFailed))

NextReceipt ==
    \/ Tick
    \/ \E p \in Slots :
        \/ ReceiptStart(p)
        \/ ReceiptCheck(p)
        \/ ReceiptInsert(p)

SpecReceipt == InitReceipt /\ [][NextReceipt]_vars

-----------------------------------------------------------------------------
(* User management: PUT and DELETE /settings/users/:id of the settings     *)
(* router and PUT and DELETE /users/:id of the users router                *)

MsgLastAdmin == "Cannot demote/deactivate the last active admin."
MsgDeleteLastAdmin == "Cannot delete the last active admin."
MsgDeleteSelf == "You cannot delete your own account."
MsgUserNotFound == "User not found."

\* a request on a user; self: req.user.id === id; role is NULL and is_active
\* is <<>> when the body leaves them out
NoUserReq == [op |-> "none", id |-> UnknownId, role |-> NULL, is_active |-> <<>>, self |-> FALSE]
NoUserLoc == [u |-> {}]
NoUserLast == [req |-> NoUserReq, resp |-> [status |-> "none", error |-> ""]]

UserReply(status, error) == [status |-> status, error |-> error]

\* the bodies an administrator sends to PUT: demote, deactivate, promote
UserBodies ==
    {[role |-> "MANAGER", is_active |-> <<>>],
     [role |-> NULL, is_active |-> <<FALSE>>],
     [role |-> "ADMIN", is_active |-> <<TRUE>>]}

\* the ids of the paths: the users of the table and one that is not there
UserIds == {u.id : u \in UserRows} \cup {UnknownId}

InitUsers ==
    /\ winners = {}
    /\ candidates = {}
    /\ washes = {}
    /\ customers = {}
    /\ nextId = 0
    /\ calls = 0
    /\ faults = 0
    /\ pc = [p \in Slots |-> "idle"]
    /\ req = [p \in Slots |-> NoUserReq]
    /\ loc = [p \in Slots |-> NoUserLoc]
    /\ last = NoUserLast
    /\ settings = NoSettings
    /\ promotions = {}
    /\ tz = 0
    /\ clock = ClockStart
    /\ users = UserRows

\* what no user-management handler writes
usersFixed == <<winners, candidates, washes, customers, nextId, settings, promotions,
                tz, clock>>

UserAccept(p) ==
    /\ pc[p] = "idle"
    /\ \A q \in Slots : q < p => pc[q] # "idle"
    /\ calls < MaxCalls
    /\ calls' = calls + 1
    /\ UNCHANGED usersFixed

UserResume(p, at) ==
    /\ pc[p] = at
    /\ UNCHANGED <<calls, usersFixed>>

UserAwait(p, r, l, at) ==
    /\ pc' = [pc EXCEPT ![p] = at]
    /\ req' = [req EXCEPT ![p] = r]
    /\ loc' = [loc EXCEPT ![p] = l]
    /\ UNCHANGED last

UserAnswer(p, r, response) ==
    /\ last' = [req |-> r, resp |-> response]
    /\ pc' = [pc EXCEPT ![p] = "idle"]
    /\ req' = [req EXCEPT ![p] = NoUserReq]
    /\ loc' = [loc EXCEPT ![p] = NoUserLoc]

\* SELECT COUNT(*) FROM users WHERE role='ADMIN' AND is_active=TRUE
countActiveAdmins(rows) == Cardinality({u \in rows : u.role = "ADMIN" /\ u.is_active})

\* SET role = COALESCE($3, role), is_active = COALESCE($4, is_active)
updatedUser(u, r) ==
    [u EXCEPT !.role = IF r.role = NULL THEN @ ELSE r.role,
              !.is_active = IF r.is_active = <<>> THEN @ ELSE r.is_active[1]]

\* UPDATE users ... WHERE id = $5 RETURNING ..., 404 when no row comes back
updateUser(p, r) ==
    LET hit == {u \in users : u.id = r.id}
    IN  /\ users' = (users \ hit) \cup {updatedUser(u, r) : u \in hit}
        /\ IF hit = {}
           THEN UserAnswer(p, r, UserReply("404", MsgUserNotFound))
           ELSE UserAnswer(p, r, UserReply("200", ""))

\* PUT /settings/users/:id without an email: for a demotion or deactivation
\* the SELECT of the user, otherwise the UPDATE at once
SettingsPutSelect(p) ==
    \E id \in UserIds, b \in UserBodies :
        LET r == [NoUserReq EXCEPT !.op = "settings_put", !.id = id, !.role = b.role,
                                   !.is_active = b.is_active]
            u == {x \in users : x.id = id}
        IN  /\ UserAccept(p)
            /\ UNCHANGED faults
            /\ IF b.role = "MANAGER" \/ b.is_active = <<FALSE>>
               THEN /\ UNCHANGED users
                    /\ IF \E x \in u : x.role = "ADMIN" /\ x.is_active
                       THEN UserAwait(p, r, [u |-> u], "settings_put_count")
                       ELSE UserAwait(p, r, [u |-> u], "settings_put_update")
               ELSE updateUser(p, r)

\* const admins = await countActiveAdmins(); if (admins <= 1) 400
SettingsPutCount(p) ==
    /\ UserResume(p, "settings_put_count")
    /\ UNCHANGED <<users, faults>>
    /\ IF countActiveAdmins(users) <= 1
       THEN UserAnswer(p, req[p], UserReply("400", MsgLastAdmin))
       ELSE UserAwait(p, req[p], loc[p], "settings_put_update")

SettingsPutUpdate(p) ==
    /\ UserResume(p, "settings_put_update")
    /\ UNCHANGED faults
    /\ updateUser(p, req[p])

\* DELETE /settings/users/:id: the check of the caller and the SELECT
SettingsDeleteSelect(p) ==
    \E id \in UserIds, self \in BOOLEAN :
        LET r == [NoUserReq EXCEPT !.op = "settings_delete", !.id = id, !.self = self]
            u == {x \in users : x.id = id}
        IN  /\ UserAccept(p)
            /\ UNCHANGED <<users, faults>>
            /\ IF self
               THEN UserAnswer(p, r, UserReply("400", MsgDeleteSelf))
               ELSE IF u = {}
               THEN UserAnswer(p, r, UserReply("404", MsgUserNotFound))
               ELSE IF \E x \in u : x.role = "ADMIN" /\ x.is_active
               THEN UserAwait(p, r, [u |-> u], "settings_delete_count")
               ELSE UserAwait(p, r, [u |-> u], "settings_delete_delete")

SettingsDeleteCount(p) ==
    /\ UserResume(p, "settings_delete_count")
    /\ UNCHANGED <<users, faults>>
    /\ IF countActiveAdmins(users) <= 1
       THEN UserAnswer(p, req[p], UserReply("400", MsgDeleteLastAdmin))
       ELSE UserAwait(p, req[p], loc[p], "settings_delete_delete")

\* DELETE FROM users WHERE id=$1 and res.json({ ok: true })
SettingsDeleteDelete(p) ==
    /\ UserResume(p, "settings_delete_delete")
    /\ UNCHANGED faults
    /\ users' = {u \in users : u.id # req[p].id}
    /\ UserAnswer(p, req[p], UserReply("200", ""))

\* PUT /users/:id without a password: the UPDATE, and nothing before it
UsersPut(p) ==
    \E id \in UserIds, b \in UserBodies :
        /\ UserAccept(p)
        /\ UNCHANGED faults
        /\ updateUser(p, [NoUserReq EXCEPT !.op = "users_put", !.id = id,
                                           !.role = b.role, !.is_active = b.is_active])

\* DELETE /users/:id: the DELETE, and nothing before it
UsersDelete(p) ==
    \E id \in UserIds :
        LET r == [NoUserReq EXCEPT !.op = "users_delete", !.id = id]
            hit == {u \in users : u.id = id}
        IN  /\ UserAccept(p)
            /\ UNCHANGED faults
            /\ users' = users \ hit
            /\ IF hit = {}
               THEN UserAnswer(p, r, UserReply("404", MsgUserNotFound))
               ELSE UserAnswer(p, r, UserReply("200", ""))

NextUsers ==
    \E p \in Slots :
        \/ SettingsPutSelect(p)
        \/ SettingsPutCount(p)
        \/ SettingsPutUpdate(p)
        \/ SettingsDeleteSelect(p)
        \/ SettingsDeleteCount(p)
        \/ SettingsDeleteDelete(p)
        \/ UsersPut(p)
        \/ UsersDelete(p)

SpecUsers == InitUsers /\ [][NextUsers]_vars

\* the endpoints of the settings router alone
NextSettingsUsers ==
    \E p \in Slots :
        \/ SettingsPutSelect(p)
        \/ SettingsPutCount(p)
        \/ SettingsPutUpdate(p)
        \/ SettingsDeleteSelect(p)
        \/ SettingsDeleteCount(p)
        \/ SettingsDeleteDelete(p)

SpecSettingsUsers == InitUsers /\ [][NextSettingsUsers]_vars

-----------------------------------------------------------------------------
(* Steps, as the properties below name them *)

\* this step answers a request of kind op with its first query
AnswersAtOnce(op) ==
    /\ calls' = calls + 1
    /\ pc' = pc
    /\ last'.req.op = op

\* this step is the first query of a request of kind op that goes on in slot p
Enters(p, op) ==
    /\ calls' = calls + 1
    /\ pc[p] = "idle"
    /\ pc'[p] # "idle"
    /\ req'[p].op = op

\* this step is a later query of the request in slot p, standing at `at`
Leaves(p, at) ==
    /\ pc[p] = at
    /\ pc'[p] # at

\* this step answers the request in slot p
Answers(p) ==
    /\ pc[p] # "idle"
    /\ pc'[p] = "idle"

NoneInFlight == \A q \in Slots : pc[q] = "idle"

\* the draw-date a finished revoke or delete worked on
RevokedDates(l) ==
    IF l.req.op = "delete" THEN {isoDay(l.req.date)}
    ELSE {r.draw_date : r \in l.resp.rows}

-----------------------------------------------------------------------------
(* Properties *)

\* C1: in every reachable state, whatever approve, draw with auto-approve,
\* reschedule, delete, revoke and the SQL approval function did and however
\* they interleaved, every draw-date has at most one winner row with status
\* APPROVED.
C1_OneApprovedPerDay ==
    \A d \in Dates : Cardinality(ApprovedRows(winners, d)) <= 1

\* C1 witness: an INSERT was rejected by the unique index while the date
\* keeps its one approved winner.
C1_Witness ==
    /\ last.resp.error = MsgUnique
    /\ \E d \in Dates : Cardinality(ApprovedRows(winners, d)) = 1

\* C2: when an approve for a date whose day-free check passed loses the race
\* against another approve of the same date (answered 201 as the last
\* response, its row still in the table), the loser is answered Conflict.
C2_RaceLoserGetsConflict ==
    [][\A p \in Slots :
          ( /\ Leaves(p, "approve_insert")
            /\ last.req.op = "approve"
            /\ isoDay(last.req.date) = loc[p].drawDate
            /\ last.resp.status = "201"
            /\ last.resp.rows \subseteq winners )
          => IsConflict(last'.resp)]_vars

\* C3: an approve whose day-free check runs while the date has an APPROVED
\* winner is answered Conflict at that check and the table is left as it
\* was: the request never reaches its INSERT.  The SQL approval function
\* does the same at its own check.
C3_ApproveOnTakenDayConflicts ==
    [][ /\ \A p \in Slots :
              Enters(p, "approve") => ApprovedRows(winners, loc'[p].drawDate) = {}
        /\ ( /\ AnswersAtOnce("approve")
             /\ ApprovedRows(winners, isoDay(last'.req.date)) # {} )
           => (IsConflict(last'.resp) /\ winners' = winners)
        /\ \A p \in Slots :
              ( /\ Leaves(p, "sql_approve_exists")
                /\ ApprovedRows(winners, loc[p].drawDate) # {} )
              => (Answers(p) /\ IsConflict(last'.resp) /\ winners' = winners)
      ]_vars

\* C3 witness: an approve was answered 409 for a date that has its approved
\* winner, a different identity than the one the request named.
C3_Witness ==
    /\ last.req.op = "approve"
    /\ last.resp.status = "409"
    /\ \E r \in ApprovedRows(winners, isoDay(last.req.date)) :
          r.customer_id # bodyWinner(last.req.ident).customer_id

\* C4: with no request in flight, an approve that follows a successful revoke
\* (the SQL function or DELETE /) of the winner of its date, the date having
\* no APPROVED winner, is not refused at its day-free check, and its INSERT
\* succeeds and leaves the new row as the one APPROVED winner of the date.
C4_ApproveAfterRevokeSucceeds ==
    [][ /\ ( /\ AnswersAtOnce("approve")
             /\ NoneInFlight
             /\ last.req.op \in {"sql_revoke", "delete"}
             /\ IsSuccess(last.resp)
             /\ isoDay(last'.req.date) \in RevokedDates(last)
             /\ ApprovedRows(winners, isoDay(last'.req.date)) = {} )
           => IsSuccess(last'.resp)
        /\ \A p \in Slots :
              ( /\ Leaves(p, "approve_insert")
                /\ \A q \in Slots \ {p} : pc[q] = "idle"
                /\ last.req.op \in {"sql_revoke", "delete"}
                /\ IsSuccess(last.resp)
                /\ loc[p].drawDate \in RevokedDates(last)
                /\ ApprovedRows(winners, loc[p].drawDate) = {} )
              => ( /\ IsSuccess(last'.resp)
                   /\ ApprovedRows(winners', loc[p].drawDate) = last'.resp.rows
                   /\ Cardinality(last'.resp.rows) = 1 )
      ]_vars

\* the APPROVED rows a revoke or delete request is aimed at
RevokeAimedAt(r) ==
    IF r.op = "delete" THEN ApprovedRows(winners, isoDay(r.date))
    ELSE {w \in winners : w.id = r.id[1] /\ w.status = "APPROVED"}

\* the note of a row with a reason appended to it
NoteWith(note, reason) ==
    (IF note.isnull THEN <<>> ELSE note.text)
        \o (IF reason = NULL THEN <<>> ELSE <<"[REVOCATION]", reason>>)

\* C5: a successful revoke (the SQL function or DELETE /) of an APPROVED
\* winner keeps the row, sets its status to REVOKED and appends the reason
\* to its note, and changes no other winner row.
C5_RevokeKeepsRowAsRevoked ==
    [][\A op \in {"sql_revoke", "delete"} :
          ( /\ AnswersAtOnce(op)
            /\ IsSuccess(last'.resp)
            /\ RevokeAimedAt(last'.req) # {} )
          => /\ \A w \in RevokeAimedAt(last'.req) :
                   [w EXCEPT !.status = "REVOKED",
                             !.note = Text(NoteWith(w.note, last'.req.reason))]
                       \in winners'
             /\ \A w \in winners \ RevokeAimedAt(last'.req) : w \in winners'
             /\ Cardinality(winners') = Cardinality(winners)
      ]_vars

\* whether a revoke or delete request names a winner that exists
RevokeFindsRow(r) ==
    IF r.op = "delete" THEN DayRows(winners, isoDay(r.date)) # {}
    ELSE \E w \in winners : w.id = r.id[1]

\* C6: a revoke (the SQL function or DELETE /) that names no existing winner
\* fails with NotFound and leaves every winner row as it was.
C6_RevokeOfMissingWinner ==
    [][\A op \in {"sql_revoke", "delete"} :
          (AnswersAtOnce(op) /\ ~RevokeFindsRow(last'.req))
          => (IsNotFound(last'.resp) /\ winners' = winners)]_vars

\* C6 witness: the SQL revoke answered "not found" while the table holds rows.
C6_Witness ==
    /\ last.req.op = "sql_revoke"
    /\ last.resp.error = MsgWinnerNotFound
    /\ winners # {}

\* C7: a draw for a date that has an APPROVED winner is answered at once with
\* exactly that winner, whatever auto-approve says, and changes no winner row.
C7_DrawReturnsApprovedWinner ==
    [][ /\ \A p \in Slots :
              Enters(p, "draw") => ApprovedRows(winners, loc'[p].drawDate) = {}
        /\ ( /\ AnswersAtOnce("draw")
             /\ ApprovedRows(winners, isoDay(last'.req.date)) # {} )
           => ( /\ last'.resp.rows = ApprovedRows(winners, isoDay(last'.req.date))
                /\ winners' = winners )
      ]_vars

\* C8: a draw never answers with a winner row whose status is not APPROVED.
C8_DrawNeverReturnsRevoked ==
    last.req.op = "draw" => \A r \in last.resp.rows : r.status = "APPROVED"

\* C9: no step of a draw request sent with auto-approve false changes the
\* winner rows or the candidate rows, and such a request is answered by its
\* candidate query at the latest.
C9_SuggestionWritesNothing ==
    [][ /\ \A p \in Slots :
              ( /\ pc[p] # "idle"
                /\ req[p].op = "draw"
                /\ ~req[p].autoApprove
                /\ pc'[p] # pc[p] )
              => (winners' = winners /\ candidates' = candidates /\ Answers(p))
        /\ \A p \in Slots :
              (Enters(p, "draw") /\ ~req'[p].autoApprove)
              => (winners' = winners /\ candidates' = candidates)
        /\ (AnswersAtOnce("draw") /\ ~last'.req.autoApprove)
           => (winners' = winners /\ candidates' = candidates)
      ]_vars

\* C9 witness: a draw with auto-approve false was answered with a suggested
\* candidate.
C9_Witness ==
    /\ last.req.op = "draw"
    /\ ~last.req.autoApprove
    /\ last.resp.status = "200"
    /\ last.resp.cand # {}

\* the candidate set a draw request computes
DrawCandidateSet(r) ==
    fetchCandidates(isoDay(r.date), r.min_washes, <<DrawLimit>>, r.filter)

\* C10: a draw for a date without APPROVED winner whose candidate set is
\* empty is answered NotFound, by whichever of its queries answers it, and
\* inserts no winner row, also with auto-approve true.
C10_DrawWithoutCandidates ==
    [][ /\ ( /\ AnswersAtOnce("draw")
             /\ ApprovedRows(winners, isoDay(last'.req.date)) = {}
             /\ DrawCandidateSet(last'.req) = {} )
           => (IsNotFound(last'.resp) /\ winners' = winners)
        /\ \A p \in Slots :
              ( /\ Leaves(p, "draw_candidates")
                /\ ApprovedRows(winners, loc[p].drawDate) = {}
                /\ DrawCandidateSet(req[p]) = {} )
              => (Answers(p) /\ IsNotFound(last'.resp) /\ winners' = winners)
      ]_vars

-----------------------------------------------------------------------------
(* Rescheduling *)

\* what a caller of a reschedule sees as Conflict
IsRescheduleConflict(r) ==
    \/ IsConflict(r)
    \/ r.status = "EXCEPTION" /\ r.error = MsgCandExists

\* the day a reschedule request moves to
RescheduleTarget(r) == IF r.op = "reschedule" THEN isoDay(r.date) ELSE r.date

\* the candidate a reschedule request names: the body of the handler's
\* request, the row of the function's p_candidate_id
RescheduleIdentity(r) ==
    IF r.op = "reschedule" THEN {bodyWinner(r.ident)}
    ELSE {c \in candidates : r.id # <<>> /\ c.id = r.id[1]}

\* same customer and same vehicle
SameIdentity(c, w) ==
    /\ NotDistinct(c.customer_id, w.customer_id)
    /\ regKey(c.vehicle_reg) = regKey(w.vehicle_reg)

\* the other candidates of the target day with the identity of the request
SameIdentityCandidates(r) ==
    {c \in candidates :
        /\ c.draw_date = RescheduleTarget(r)
        /\ \E w \in RescheduleIdentity(r) : SameIdentity(c, w)
        /\ r.op = "sql_reschedule" => c.id # r.id[1]}

\* this step answers a reschedule request
AnswersReschedule ==
    \/ AnswersAtOnce("reschedule")
    \/ AnswersAtOnce("sql_reschedule")
    \/ \E p \in Slots : Answers(p) /\ req[p].op \in {"reschedule", "sql_reschedule"}

\* the request names a candidate and a day
RescheduleInScope(r) ==
    /\ RescheduleTarget(r) # NoDate
    /\ RescheduleIdentity(r) # {}

\* C11: a reschedule of a candidate to a day is answered Conflict when the
\* day has an APPROVED winner or holds another candidate of the same
\* identity at the moment of the answer, and is answered with success when
\* neither is the case
C11_RescheduleConflictOrSuccess ==
    [][AnswersReschedule /\ RescheduleInScope(last'.req) =>
          IF \/ ApprovedRows(winners, RescheduleTarget(last'.req)) # {}
             \/ SameIdentityCandidates(last'.req) # {}
          THEN IsRescheduleConflict(last'.resp)
          ELSE IsSuccess(last'.resp)]_vars

\* C12: a reschedule answered with success has added exactly one winner
\* row, of the target day, and has left every other winner row and every
\* candidate row, the draw-date of the rescheduled one included, as it was
C12_RescheduleAddsOneWinner ==
    [][AnswersReschedule /\ RescheduleInScope(last'.req) /\ IsSuccess(last'.resp) =>
          /\ \E row \in winners' \ winners :
                /\ row.draw_date = RescheduleTarget(last'.req)
                /\ winners' = winners \cup {row}
          /\ candidates' = candidates]_vars

-----------------------------------------------------------------------------
(* The wash ledger: money *)

\* C13: in every reachable state of the ledger, whatever creations and
\* updates of washes have run and however their steps interleaved, the
\* commission and the profit of every wash row add up to its unit price,
\* all three in whole cents
C13_MoneyAddsUp ==
    \A w \in washes : w.commission_amount + w.profit_amount = w.unit_price

\* a wash created in the run with a commission, and an update of a wash to a
\* price of more than two decimals that has just been stored
C13_Witness ==
    /\ \E w \in washes : w.id \notin PriorWashes /\ w.commission_amount > 0
    /\ last.req.op = "update"
    /\ last.resp.status = "200"
    /\ \E w \in last.resp.rows : w.unit_price = numeric2(10005)

-----------------------------------------------------------------------------
(* The wash ledger: rewards *)

\* this step is the INSERT of the wash of the create request in slot p
Inserts(p) ==
    /\ pc[p] = "insert"
    /\ req[p].op = "create"
    /\ washes' # washes

\* the row a step has inserted
Inserted == CHOOSE w \in washes' \ washes : TRUE

\* the price the caller proposed, or the configured one, in cents
ProposedPrice(b) ==
    IF b.unit_price # <<>> THEN numeric2(b.unit_price[1])
    ELSE (CHOOSE r \in priceRows(b) : TRUE).price

\* the percentage the caller supplied, or the default
ProposedPct(b) ==
    IF b.commission_pct # <<>> THEN b.commission_pct[1] ELSE DefaultCommissionPct

\* the plate of the request has a featured entry for the month of the wash
PlateFeatured(b) ==
    \E f \in FeaturedRows :
        /\ f.vehicle_reg = b.vehicle_reg
        /\ SameMonth(f.month, OrNow(b.washed_at))

\* the washes of the customer of row w in the month of w, w left out
MonthWashes(w) ==
    {x \in washes : /\ x.id # w.id
                    /\ x.customer_id = w.customer_id
                    /\ SameMonth(x.washed_at, w.washed_at)}

PlateWashes(w) ==
    {x \in washes : /\ x.id # w.id
                    /\ x.vehicle_reg = w.vehicle_reg
                    /\ SameMonth(x.washed_at, w.washed_at)}

\* the setting, the promotion and the entry the featured reward needs
FeaturedOnceConfigured(b) ==
    /\ settings.featured_free_once_per_month
    /\ getPromoId(promotions, FEATURED_VEHICLE) # {}
    /\ PlateFeatured(b)

\* C15: with requests running one after the other and no query failing,
\* featured_free_once_per_month true, the featured promotion active and the
\* plate featured for the month, the first wash stored for the plate in
\* that month is free with the featured promo, and every later wash of the
\* plate in that month is stored without the featured promo
C15_FeaturedOncePerMonth ==
    [][\A p \in Slots :
          /\ Inserts(p)
          /\ faults = 0
          /\ FeaturedOnceConfigured(req[p])
          => IF PlateWashes(Inserted) = {}
             THEN /\ Inserted.is_free
                  /\ Inserted.unit_price = 0
                  /\ Inserted.promo_id = <<FEATURED_VEHICLE>>
             ELSE Inserted.promo_id # <<FEATURED_VEHICLE>>]_vars

\* the featured check grants in the state the request sees
FeaturedDue(b) ==
    /\ isVehicleFeaturedForMonth(b.vehicle_reg, b.washed_at, tz) # {}
    /\ canGrant(settings.featured_free_once_per_month # FALSE,
                hasUsedFeaturedRewardThisMonth(washes, promotions, b.vehicle_reg,
                                               b.washed_at))
    /\ getPromoId(promotions, FEATURED_VEHICLE) # {}

\* the wash being inserted is the customer's 13th, 26th, ... of the month
LoyaltyDueNow(w) ==
    /\ w.customer_id # <<>>
    /\ (Cardinality(MonthWashes(w)) + 1) % 13 = 0

\* C16: the checks run in the order featured, loyalty, random and the first
\* grant wins: a request stands at the loyalty check only when the featured
\* check did not grant and at the random check only when neither granted;
\* and, requests running one after the other and no lookup failing, a wash
\* whose featured check grants is stored free with the featured promo even
\* when it is the customer's 13th wash of the month, a 13th wash without a
\* featured grant is stored free with the loyalty promo or none, and a wash
\* stored with the random promo had neither of the two grants
C16_FirstGrantWins ==
    [][\A p \in Slots :
          /\ pc[p] \in {"loyalty_count", "random_visits", "random_cap"} =>
                ~loc[p].isFree /\ loc[p].promoId = <<>>
          /\ pc[p] = "loyalty_promo" => loc[p].isFree /\ loc[p].promoId = <<>>
          /\ Inserts(p) /\ ~loc[p].skipped =>
                /\ FeaturedDue(req[p]) =>
                      Inserted.is_free /\ Inserted.promo_id = <<FEATURED_VEHICLE>>
                /\ ~FeaturedDue(req[p]) /\ LoyaltyDueNow(Inserted) =>
                      Inserted.is_free /\ Inserted.promo_id \in {<<>>, <<LOYALTY_13TH>>}
                /\ Inserted.promo_id = <<FREE_WASH>> =>
                      ~FeaturedDue(req[p]) /\ ~LoyaltyDueNow(Inserted)]_vars

\* a customer's 13th wash of the month, on a featured plate, stored with the
\* featured promo
C16_Witness ==
    \E w \in washes :
        /\ w.promo_id = <<FEATURED_VEHICLE>>
        /\ w.is_free
        /\ w.customer_id = <<1>>
        /\ Cardinality(MonthWashes(w)) = 12

\* the visits_count of the customer of the request in slot p
VisitsOf(p) ==
    LET crow == {c \in customers : <<c.id>> = loc[p].customerId}
    IN  IF crow = {} THEN 0 ELSE (CHOOSE c \in crow : TRUE).visits_count

\* today's washes that are free by the random promo
FreeRandomToday ==
    {x \in washes : x.is_free /\ x.promo_id = <<FREE_WASH>> /\ x.washed_at = Today}

\* the draw came out below the probability; a draw that was not taken is
\* below it when the probability is 1
DrawBelow(l) ==
    IF l.draw # <<>> THEN l.draw[1] ELSE settings.promo_free_prob >= 100

\* the conditions of the random promo for the request in slot p
RandomDue(p) ==
    /\ settings.promo_free_enabled
    /\ loc[p].customerId # <<>>
    /\ VisitsOf(p) >= settings.promo_free_min_visits
    /\ \/ settings.promo_free_daily_cap = 0
       \/ Cardinality(FreeRandomToday) < settings.promo_free_daily_cap
    /\ DrawBelow(loc[p])

\* C17: with requests running one after the other and no lookup failing, a
\* wash that neither the featured nor the loyalty check made free is stored
\* free with price 0, commission_pct 0 and the random promo when
\* promo_free_enabled is true, the customer is resolved, its visit count is
\* at least the configured minimum, the daily cap is zero or today's number
\* of free-random washes is below it, and the draw is below the probability;
\* when one of these fails the wash is stored without the random promo
C17_RandomPromo ==
    [][\A p \in Slots :
          /\ Inserts(p)
          /\ ~loc[p].skipped
          /\ ~FeaturedDue(req[p])
          /\ ~LoyaltyDueNow(Inserted)
          => IF RandomDue(p)
             THEN /\ Inserted.is_free
                  /\ Inserted.unit_price = 0
                  /\ Inserted.commission_pct = 0
                  /\ Inserted.promo_id = <<FREE_WASH>>
             ELSE Inserted.promo_id # <<FREE_WASH>>]_vars

-----------------------------------------------------------------------------
(* The wash ledger: failures *)

\* a body the table's CHECKs admit at its proposed price and percentage
ValidBody(b) ==
    /\ ProposedPct(b) \in 0..100
    /\ b.unit_price # <<>> => b.unit_price[1] % 10 = 0

\* C18: when a lookup of the reward evaluation has failed (customer
\* resolution, featured or settings read, month count, promo-id read, cap
\* count), the INSERT that follows stores the wash, and stores it with
\* is_free false, the proposed price and the percentage the caller supplied
\* or the default
C18_FailedLookupDegrades ==
    [][\A p \in Slots :
          /\ pc[p] = "insert"
          /\ pc'[p] # "insert"
          /\ req[p].op = "create"
          /\ loc[p].skipped
          /\ ValidBody(req[p])
          /\ faults' = faults
          => /\ washes' # washes
             /\ ~Inserted.is_free
             /\ Inserted.unit_price = ProposedPrice(req[p])
             /\ Inserted.commission_pct = ProposedPct(req[p])]_vars

\* what a caller of the ledger sees as failure
WashFailed(r) == r.status \in {"400", "500"}

\* this step answers the create request in slot p (a request that is
\* answered by its first query never held a slot)
AnswersCreate(p) ==
    /\ pc[p] # "idle"
    /\ pc'[p] = "idle"
    /\ req[p].op = "create"

\* C19: a create request answered with a failure has written nothing: its
\* upsertCustomer has neither inserted nor updated a customer row, no wash
\* row of it is stored and its last step writes none; and a create request
\* whose wash row was inserted is answered with success
C19_FailureWritesNothing ==
    [][\A p \in Slots :
          AnswersCreate(p) =>
              /\ WashFailed(last'.resp) =>
                    /\ loc[p].customerId = <<>>
                    /\ loc[p].wash = {}
                    /\ washes' = washes
                    /\ customers' = customers
              /\ (loc[p].wash # {} \/ washes' # washes) => last'.resp.status = "201"]_vars

\* the wash rows that reference customer c
WashesOf(c) == {w \in washes : w.customer_id = <<c.id>>}

\* C20: whenever every request has been answered, the visits_count of each
\* customer is the number of wash rows that reference the customer
C20_VisitsCountMatchesWashes ==
    Alone => \A c \in customers : c.visits_count = Cardinality(WashesOf(c))

-----------------------------------------------------------------------------
(* The wash ledger: receipt numbers *)

ReceiptTaken(no) == \E w \in washes : w.receipt_no = no

\* the SELECT of request p has answered without throwing
Checked(p) == pc[p] = "receipt_check" /\ <<pc'[p], loc'[p]>> # <<pc[p], loc[p]>>
              /\ faults' = faults

\* C21: generateUniqueReceiptNo ends after at most five SELECTs: a candidate
\* that is not found is returned at once, a candidate that is found is
\* followed by the next attempt while fewer than five were made, and the
\* fifth candidate found is followed by the fallback `SH${Date.now()}`
\* without another SELECT.
C21_ReceiptLoopEnds ==
    [][\A p \in Slots :
          Checked(p) =>
            /\ loc[p].i < RetryLimit
            /\ ~ReceiptTaken(loc[p].candidate) =>
                  /\ pc'[p] = "receipt_insert"
                  /\ loc'[p].receiptNo = loc[p].candidate
            /\ ReceiptTaken(loc[p].candidate) /\ loc[p].i + 1 < RetryLimit =>
                  /\ pc'[p] = "receipt_check"
                  /\ loc'[p].i = loc[p].i + 1
            /\ ReceiptTaken(loc[p].candidate) /\ loc[p].i + 1 = RetryLimit =>
                  /\ pc'[p] = "receipt_insert"
                  /\ loc'[p].receiptNo = fallbackReceiptNo(clock)]_vars

\* a wash stored under the fallback after five candidates were found, next
\* to a wash of the run stored under a candidate
C21_Witness ==
    /\ last.resp.status = "201"
    /\ last.loc.i = RetryLimit
    /\ \E w \in last.resp.rows : w.receipt_no = last.loc.receiptNo /\ Len(w.receipt_no) = 2
    /\ \E w \in washes \ ReceiptRows : Len(w.receipt_no) = 3

\* C25: no two wash records have the same receipt number.
C25_ReceiptNumbersUnique ==
    \A w1, w2 \in washes : w1.receipt_no = w2.receipt_no => w1.id = w2.id

-----------------------------------------------------------------------------
(* The registry: what a Conflict tells the caller *)

\* C22: every Conflict answered by approve, by draw with auto_approve, by
\* reschedule or by the approval function carries the day that is taken: the
\* error value names a day on which a winner row stands.
C22_ConflictCarriesDate ==
    IsConflict(last.resp) => \E w \in winners : w.draw_date = last.resp.date

\* a body without a well-formed date, or without any identity field
LacksRequired(r) ==
    /\ r.op \in {"approve", "reschedule"}
    /\ ~IsIsoDay(r.date) \/ r.ident = NoIdentity

\* C23: approve and reschedule called without a well-formed date, or with
\* no identity field at all, are answered with a validation error (400) and
\* return no winner row.
C23_MissingFieldsRejected ==
    LacksRequired(last.req) => last.resp.status = "400" /\ last.resp.rows = {}

-----------------------------------------------------------------------------
(* The registry: reading the winner of a day *)

\* C24: GET / answers the APPROVED winner of the day when there is one and
\* null when there is none; the row it answers is never one whose status is
\* REVOKED or PENDING.
C24_GetReturnsApprovedWinner ==
    [][AnswersAtOnce("get") =>
         LET approved == ApprovedRows(winners, isoDay(last'.req.date))
         IN  /\ approved # {} => last'.resp.rows = {winnerColumns(w) : w \in approved}
             /\ approved = {} => last'.resp.rows = {}]_vars

-----------------------------------------------------------------------------
(* The registry: the statuses of winner rows *)

\* C27: no winner row ever has status PENDING: every row a step inserts
\* (approve, draw with auto-approve, reschedule, the approval function) is
\* APPROVED, and the only change of status a step makes is to REVOKED.
C27_NeverPending ==
    [][\A w \in winners' :
          LET before == {r \in winners : r.id = w.id}
          IN  /\ w.status # "PENDING"
              /\ before = {} => w.status = "APPROVED"
              /\ \A r \in before : r.status # w.status => w.status = "REVOKED"]_vars

\* a revoked row next to an approved one, a reschedule having just inserted
C27_Witness ==
    /\ last.req.op = "reschedule"
    /\ last.resp.status = "201"
    /\ \E w \in winners : w.status = "REVOKED"
    /\ \E w \in winners : w.status = "APPROVED" /\ w \in last.resp.rows

-----------------------------------------------------------------------------
(* The wash ledger: rewards of overlapping requests *)

\* the washes stored with the reward `code` in the month of today
GrantedThisMonth(code) ==
    {w \in washes : w.is_free /\ w.promo_id = <<code>> /\ SameMonth(w.washed_at, Today)}

\* C26: a reward decided by the reads of a request is stored as decided,
\* whatever other requests have inserted since: the INSERT of a request
\* whose evaluation granted the loyalty or the featured reward stores a free
\* wash with that reward, so two requests that both read before either
\* inserts are both stored with it.
C26_GrantDecidedAtRead ==
    [][\A p \in Slots :
          ( /\ pc[p] = "insert"
            /\ pc'[p] # "insert"
            /\ faults' = faults
            /\ loc[p].isFree
            /\ loc[p].promoId \in {<<LOYALTY_13TH>>, <<FEATURED_VEHICLE>>} )
          => \E w \in washes' \ washes :
                /\ w.is_free
                /\ w.promo_id = loc[p].promoId
                /\ w.unit_price = 0]_vars

\* two washes of customer 1 stored as the 13th of the month, and two washes
\* of the featured car stored with the featured reward of the month, once
\* per month being enforced
C26_Witness ==
    /\ settings.featured_free_once_per_month
    /\ \E w1, w2 \in GrantedThisMonth(LOYALTY_13TH) :
          w1.id # w2.id /\ w1.customer_id = w2.customer_id
    /\ \E w1, w2 \in GrantedThisMonth(FEATURED_VEHICLE) :
          w1.id # w2.id /\ w1.vehicle_reg = w2.vehicle_reg

-----------------------------------------------------------------------------
(* The wash ledger: free washes *)

\* C28: every stored wash that is marked free has unit price 0 and
\* commission amount 0.
C28_FreeWashCostsNothing ==
    \A w \in washes : w.is_free => w.unit_price = 0 /\ w.commission_amount = 0

\* C29: with a daily cap above zero, the washes of today stored with the
\* random free-wash promo never outnumber the cap.
C29_DailyCapHolds ==
    settings.promo_free_daily_cap > 0
        => Cardinality(FreeRandomToday) <= settings.promo_free_daily_cap

-----------------------------------------------------------------------------
(* User management *)

\* C30: at least one active ADMIN user remains, whatever updates and
\* deletes of users are requested and however they interleave.
C30_AnAdminRemains == countActiveAdmins(users) >= 1

====
